---------------------------- MODULE Spec2Model ----------------------------
(***************************************************************************)
(* Model of src/api/v1/accounts.ts of Hollo: the account API handlers      *)
(* (update_credentials, relationships, lookup, search, familiar_followers, *)
(* statuses, follow, unfollow, followers, following, mute, unmute, block,  *)
(* unblock) over the relational store                                      *)
(* (accounts, account_owners, follows, blocks, mutes, posts).  Every       *)
(* awaited database or network call of a handler is one step of the        *)
(* request that runs it.                                                   *)
(***************************************************************************)
EXTENDS Integers, Sequences, FiniteSets, TLC

VARIABLES
  accounts,   \* rows of the accounts table
  follows,    \* rows of the follows table
  blocks,     \* rows of the blocks table
  mutes,      \* rows of the mutes table
  posts,      \* rows of the posts table (with their mentions, pins, media)
  clock,      \* CURRENT_TIMESTAMP / new Date(), in seconds
  lastIndex,  \* HANDLE_PATTERN.lastIndex (the regex is global: /giu)
  reqs,       \* the requests in flight, one per slot
  walk,       \* a client following the next links of the statuses listing
  owners      \* rows of the account_owners table

vars ==
  <<accounts, follows, blocks, mutes, posts, clock, lastIndex, reqs, walk,
    owners>>

store == <<accounts, follows, blocks, mutes, posts, owners>>

---------------------------------------------------------------------------
(* Values *)

\* null for string-valued columns and parameters
NULL == "null"

\* null and non-null for the other nullable columns
None == <<>>

Some(v) == <<v>>

IsNull(o) == o = None

Val(o) == o[1]

Range(sq) == {sq[i] : i \in 1..Len(sq)}

---------------------------------------------------------------------------
(* Strings are sequences of one-character strings *)

Letters == {"a", "b", "c", "e", "h", "r", "x"}

\* String.prototype.includes("@")
IncludesAt(str) == \E i \in 1..Len(str) : str[i] = "@"

\* str.replace(/^@/, "")
StripLeadingAt(str) ==
  IF Len(str) > 0 /\ str[1] = "@" THEN SubSeq(str, 2, Len(str)) ELSE str

\* the host of the request URL
LocalHost == <<"h", ".", "e", "x">>

RemoteHost == <<"r", ".", "e", "x">>

\* SQL "col ILIKE '%q%'" for q without wildcards: q occurs in str
Contains(str, q) ==
  \E i \in 1..(Len(str) - Len(q) + 1) : SubSeq(str, i, i + Len(q) - 1) = q

\* SQL "col ILIKE 'q%'"
StartsWith(str, q) ==
  Len(str) >= Len(q) /\ SubSeq(str, 1, Len(q)) = q

---------------------------------------------------------------------------
(* Account rows *)

\* (await formatText(db, text, fmtOpts)).html: the text rendered as HTML
Html(text) == <<"<p>", text, "</p>">>

Handle(user, host) == <<"@">> \o user \o <<"@">> \o host

Iri(user, host) == <<"https://">> \o host \o <<"/">> \o user

AccountRow(id, user, host, isLocal, isProtected) ==
  [id |-> id, handle |-> Handle(user, host), name |-> user,
   iri |-> Iri(user, host), owner |-> isLocal,
   protected |-> isProtected, successorId |-> NULL,
   bioHtml |-> Html(""), fieldHtmls |-> <<>>]

\* the two accounts hosted on this instance (each with an AccountOwner row)
LocalAccounts ==
  { AccountRow("a1", <<"a">>, LocalHost, TRUE, FALSE),
    AccountRow("a2", <<"b">>, LocalHost, TRUE, TRUE) }

\* a row of account_owners: the source text of the bio and of the profile
\* fields, the fields as the entries of the stored object
OwnerRow(id, bio, fields) == [id |-> id, bio |-> bio, fields |-> fields]

LocalOwners == {OwnerRow("a1", "", <<>>), OwnerRow("a2", "", <<>>)}

\* the actor documents the federation can serve
RemoteActors == {[user |-> <<"c">>, host |-> RemoteHost]}

NoActor == [user |-> <<>>, host |-> <<>>]

ActorIri(actor) == Iri(actor.user, actor.host)

\* the row persistAccount stores for an actor document
ActorRow(id, actor) == AccountRow(id, actor.user, actor.host, FALSE, FALSE)

\* the row of the remote actor c@r.ex
RemoteRow(id) == ActorRow(id, CHOOSE a \in RemoteActors : TRUE)

\* ids for newly inserted account rows (crypto.randomUUID in persistAccount)
FreshIds == <<"r1", "r2">>

\* db.query.accounts.findFirst({ where: eq(accounts.id, id) })
FindAccount(id) ==
  IF \E a \in accounts : a.id = id
  THEN CHOOSE a \in accounts : a.id = id
  ELSE [id |-> NULL]

\* isUuid(id): "bad" stands for every malformed id
IsUuid(id) == id # "bad"

---------------------------------------------------------------------------
(* Post rows.  mentions, pinnedBy, media and tags fold the mentions,        *)
(* pinned_posts and media tables and the post's hashtags into the post.    *)

PostRow(id, author, vis, sharing, reply, published, ment, pinnedBy, hasMedia) ==
  [id |-> id, accountId |-> author, visibility |-> vis,
   sharingId |-> sharing, replyTargetId |-> reply, published |-> published,
   mentions |-> ment, pinnedBy |-> pinnedBy, media |-> hasMedia, tags |-> {}]

\* the post carrying these hashtags
Tagged(p, tags) == [p EXCEPT !.tags = tags]

\* the posts known locally when the instance is observed
KnownPosts ==
  { PostRow(10, "r1", "public",   None,     None,     1, {},     {},     FALSE),
    Tagged(PostRow(11, "a2", "public", None, None, 2, {}, {"a2"}, FALSE), {"t"}),
    PostRow(12, "a2", "unlisted", None,     Some(10), 3, {},     {},     FALSE),
    PostRow(13, "a2", "private",  None,     None,     4, {},     {},     TRUE),
    PostRow(14, "a2", "direct",   None,     None,     5, {"a1"}, {},     FALSE),
    PostRow(15, "a2", "direct",   None,     None,     6, {"r1"}, {},     FALSE),
    PostRow(16, "a2", "public",   Some(10), None,     7, {},     {},     FALSE),
    PostRow(17, "a1", "private",  None,     None,     8, {},     {"a1"}, FALSE),
    PostRow(18, "r1", "private",  None,     None,     9, {},     {},     FALSE) }

\* the remote actor's public posts that a backfill can still fetch
RemotePosts ==
  { PostRow(19, "r1", "public", None, None, 10, {}, {}, TRUE) }

---------------------------------------------------------------------------
(* Mute durations *)

\* new Date(duration * 1000).toISOString().replace(/^[^T]+T|\.[^Z]+Z?$/g, ""):
\* the date part and the milliseconds are cut, "HH:MM:SS" of the day remains
ToTimeOfDay(duration) ==
  [h |-> (duration \div 3600) % 24,
   m |-> (duration \div 60) % 60,
   s |-> duration % 60]

\* DurationStr that maps only a negative duration to null
DurationStrNegativeOnly(duration) ==
  IF duration < 0 THEN None ELSE Some(ToTimeOfDay(duration))

\* durationStr of POST /:id/mute
DurationStr(duration) ==
  IF duration <= 0 THEN None ELSE Some(ToTimeOfDay(duration))

\* the seconds PostgreSQL reads from the interval literal "HH:MM:SS"
IntervalSeconds(t) == t.h * 3600 + t.m * 60 + t.s

\* isNull(mutes.duration) OR mutes.created + mutes.duration > CURRENT_TIMESTAMP
ActiveMute(m, now) ==
  IsNull(m.duration) \/ m.created + IntervalSeconds(Val(m.duration)) > now

---------------------------------------------------------------------------
(* GET /:id/statuses: the post query *)

\* the default of the statuses query: no option, no cursor, limit ?? 20
DefaultLimit == 20

\* or(...) of the post query: who may see a post of this visibility class
VisibilityClause(p, viewer, nFollowing) ==
  \/ p.accountId = viewer
  \/ p.visibility = "public"
  \/ p.visibility = "unlisted"
  \/ (nFollowing > 0 /\ p.visibility = "private")
  \/ (p.visibility = "direct" /\ viewer \in p.mentions)

\* notInArray(posts.accountId, <accounts the viewer mutes, mute still active>)
MuteClause(p, viewer) ==
  p.accountId \notin
    {m.mutedAccountId : m \in {x \in mutes :
        x.accountId = viewer /\ ActiveMute(x, clock)}}

\* BlockClause without the viewer's own blocks
BlockClauseOneWay(p, viewer) ==
  p.accountId \notin
    {b.accountId : b \in {x \in blocks : x.blockedAccountId = viewer}}

\* the two notInArray(posts.accountId, ...) over blocks
BlockClause(p, viewer) ==
  /\ p.accountId \notin
       {b.blockedAccountId : b \in {x \in blocks : x.accountId = viewer}}
  /\ p.accountId \notin
       {b.accountId : b \in {x \in blocks : x.blockedAccountId = viewer}}

\* SharedMuteClause left out of the query
SharedMuteClauseOff(p, viewer) == TRUE

\* or(isNull(posts.sharingId), notInArray(posts.sharingId, <posts of muted>))
SharedMuteClause(p, viewer) ==
  \/ IsNull(p.sharingId)
  \/ Val(p.sharingId) \notin
       {o.id : o \in {x \in posts : \E m \in mutes :
           /\ m.mutedAccountId = x.accountId
           /\ m.accountId = viewer
           /\ ActiveMute(m, clock)}}

\* the optional conjuncts: pinned, exclude_replies, only_media; the query's
\* exclude_reblogs and tagged are validated and read nowhere
OptionClause(p, id, q) ==
  /\ (q.pinned => id \in p.pinnedBy)
  /\ (q.exclude_replies => IsNull(p.replyTargetId))
  /\ (q.only_media => p.media)

\* lt(posts.id, max_id) and gt(posts.id, min_id)
CursorClause(p, q) ==
  /\ (IsNull(q.max_id) \/ p.id < Val(q.max_id))
  /\ (IsNull(q.min_id) \/ p.id > Val(q.min_id))

\* the where of db.query.posts.findMany
PostWhere(p, viewer, id, nFollowing, q) ==
  /\ p.accountId = id
  /\ VisibilityClause(p, viewer, nFollowing)
  /\ MuteClause(p, viewer)
  /\ BlockClause(p, viewer)
  /\ SharedMuteClause(p, viewer)
  /\ OptionClause(p, id, q)
  /\ CursorClause(p, q)

\* orderBy: [desc(posts.published), desc(posts.id)]
Newer(p, r) ==
  \/ p.published > r.published
  \/ (p.published = r.published /\ p.id > r.id)

RECURSIVE SortPosts(_)
SortPosts(S) ==
  IF S = {} THEN <<>>
  ELSE LET first == CHOOSE p \in S : \A r \in S \ {p} : Newer(p, r)
       IN <<first>> \o SortPosts(S \ {first})

Take(sq, n) == SubSeq(sq, 1, IF Len(sq) < n THEN Len(sq) ELSE n)

\* findMany({ where, orderBy, limit: limit + 1 })
PostList(viewer, id, nFollowing, q) ==
  Take(SortPosts({p \in posts : PostWhere(p, viewer, id, nFollowing, q)}),
       q.limit + 1)

\* NextCursor taking the id of the last row of the page
NextCursorLastShown(postList, limit) ==
  IF Len(postList) > limit THEN Some(postList[limit].id) ELSE None

\* the Link header: max_id of the next page
NextCursor(postList, limit) ==
  IF Len(postList) > limit THEN Some(postList[limit + 1].id) ELSE None

\* postList.slice(0, limit), as post ids
Page(postList, limit) ==
  [i \in 1..(IF Len(postList) < limit THEN Len(postList) ELSE limit)
     |-> postList[i].id]

---------------------------------------------------------------------------
(* Requests.  A request holds the handler's parameters (op, owner, id,   *)
(* arg), its position (pc), its local variables (loc) and its response.  *)

Idle == [op |-> "idle"]

NoAccount == [id |-> NULL]

\* deleted: the row count the last awaited delete resolved to
NoLoc ==
  [account |-> NoAccount, nFollowing |-> 0, sent |-> {}, derefs |-> 0,
   deleted |-> 0]

NoResp == [status |-> 0, kind |-> "none"]

NewReq(op, owner, id, arg) ==
  [op |-> op, owner |-> owner, id |-> id, arg |-> arg,
   pc |-> "start", loc |-> NoLoc, resp |-> NoResp]

\* c.json({ error }, status)
ErrorResp(status) == [status |-> status, kind |-> "error"]

\* c.json(postList.slice(0, limit)..., { headers: Link })
PostsResp(page, next) ==
  [status |-> 200, kind |-> "posts", body |-> page, next |-> next]

\* c.json(serializeRelationship(account, owner))
RelationshipResp(rel) ==
  [status |-> 200, kind |-> "relationship", body |-> rel]

At(s, op, pc) == reqs[s].op = op /\ reqs[s].pc = pc

Goto(r, pc, loc) == [r EXCEPT !.pc = pc, !.loc = loc]

Respond(r, resp) == [r EXCEPT !.pc = "done", !.resp = resp]

\* Precheck without the check of the token's accountOwner
PrecheckIdOnly(owner, id) == IF ~IsUuid(id) THEN 404 ELSE 0

\* the checks every handler of /:id/... starts with: isUuid(id), then the
\* token's accountOwner; the status of the failure, or 0
Precheck(owner, id) ==
  IF ~IsUuid(id) THEN 404
  ELSE IF owner = NULL THEN 422
  ELSE 0

\* no client is paging
NoWalk == [limit |-> 0, cursor |-> None, seen |-> <<>>, pages |-> 0, done |-> TRUE]

---------------------------------------------------------------------------
(* The relationship summary *)

\* serializeRelationship over the rows the re-read query loads:
\* followers (owner -> account), following (account -> owner),
\* mutedBy (owner mutes account), blockedBy (owner blocks account),
\* blocks (account blocks owner)
Relationship(owner, id) ==
  [id |-> id,
   following |-> \E f \in follows :
     f.followerId = owner /\ f.followingId = id /\ ~IsNull(f.approved),
   requested |-> \E f \in follows :
     f.followerId = owner /\ f.followingId = id /\ IsNull(f.approved),
   followedBy |-> \E f \in follows :
     f.followerId = id /\ f.followingId = owner /\ ~IsNull(f.approved),
   muting |-> \E m \in mutes : m.accountId = owner /\ m.mutedAccountId = id,
   mutingNotifications |-> \E m \in mutes :
     m.accountId = owner /\ m.mutedAccountId = id /\ m.notifications,
   blocking |-> \E b \in blocks :
     b.accountId = owner /\ b.blockedAccountId = id,
   blockedBy |-> \E b \in blocks :
     b.accountId = id /\ b.blockedAccountId = owner]

\* Reread that serializes the account loaded before the mutation, which
\* carries no Follow, Block or Mute row
RereadFromLoaded(s, op) ==
  /\ At(s, op, "reread")
  /\ reqs' = [reqs EXCEPT ![s] =
       IF FindAccount(reqs[s].id).id = NULL
       THEN Respond(@, ErrorResp(404))
       ELSE Respond(@, RelationshipResp(
              [id |-> reqs[s].id, following |-> FALSE, requested |-> FALSE,
               followedBy |-> FALSE, muting |-> FALSE,
               mutingNotifications |-> FALSE, blocking |-> FALSE,
               blockedBy |-> FALSE]))]
  /\ UNCHANGED <<store, clock, lastIndex, walk>>

\* Reread without the 404 for an account that is not found
RereadUnchecked(s, op) ==
  /\ At(s, op, "reread")
  /\ reqs' = [reqs EXCEPT ![s] =
       Respond(@, RelationshipResp(Relationship(reqs[s].owner, reqs[s].id)))]
  /\ UNCHANGED <<store, clock, lastIndex, walk>>

\* the re-read every relationship mutation ends with
Reread(s, op) ==
  /\ At(s, op, "reread")
  /\ reqs' = [reqs EXCEPT ![s] =
       IF FindAccount(reqs[s].id).id = NULL
       THEN Respond(@, ErrorResp(404))
       ELSE Respond(@, RelationshipResp(Relationship(reqs[s].owner, reqs[s].id)))]
  /\ UNCHANGED <<store, clock, lastIndex, walk>>

\* the handler's first step when it is validation and findFirst by id
StartWithAccount(s, op, owner, id, arg) ==
  /\ reqs[s] = Idle
  /\ LET r == NewReq(op, owner, id, arg)
         account == FindAccount(id)
     IN reqs' = [reqs EXCEPT ![s] =
          IF Precheck(owner, id) # 0 THEN Respond(r, ErrorResp(Precheck(owner, id)))
          ELSE IF account.id = NULL THEN Respond(r, ErrorResp(404))
          ELSE Goto(r, "mutate", [NoLoc EXCEPT !.account = account])]
  /\ UNCHANGED <<store, clock, lastIndex, walk>>

\* the response has been sent
Finish(s) ==
  /\ reqs[s] # Idle
  /\ reqs[s].pc = "done"
  /\ reqs' = [reqs EXCEPT ![s] = Idle]
  /\ UNCHANGED <<store, clock, lastIndex, walk>>

---------------------------------------------------------------------------
(* GET /relationships *)

\* ids.indexOf(x): the zero-based index of the first occurrence, or -1
IndexOf(ids, x) ==
  IF \E i \in 1..Len(ids) : ids[i] = x
  THEN (CHOOSE i \in 1..Len(ids) :
          ids[i] = x /\ \A j \in 1..(i - 1) : ids[j] # x) - 1
  ELSE -1

\* the rows in the opposite order, last index first
SortedByIndexReversed(rows, ids) ==
  CHOOSE sq \in [1..Cardinality(rows) -> rows] :
    \A i, j \in 1..Cardinality(rows) :
      i < j => IndexOf(ids, sq[i].id) > IndexOf(ids, sq[j].id)

\* accountList.sort((a, b) => ids.indexOf(a.id) - ids.indexOf(b.id)) of the
\* rows findMany returned, in whatever order it returned them
SortedByIndex(rows, ids) ==
  CHOOSE sq \in [1..Cardinality(rows) -> rows] :
    \A i, j \in 1..Cardinality(rows) :
      i < j => IndexOf(ids, sq[i].id) < IndexOf(ids, sq[j].id)

\* findMany({ where: inArray(accounts.id, ids) }), or [] for no ids
AccountsIn(ids) == {a \in accounts : a.id \in Range(ids)}

\* c.json(accountList.map((account) => serializeRelationship(account, owner)))
RelationshipsResp(owner, accountList) ==
  [status |-> 200, kind |-> "relationships",
   body |-> [i \in 1..Len(accountList) |->
               Relationship(owner, accountList[i].id)]]

RelationshipsArg(ids) == [ids |-> ids]

\* the owner check, (c.req.queries("id[]") ?? []).filter(isUuid), the
\* findMany, the sort and the response
RelationshipsGet(s, owner, ids) ==
  /\ reqs[s] = Idle
  /\ LET r == NewReq("relationships", owner, NULL, RelationshipsArg(ids))
         uuids == SelectSeq(ids, IsUuid)
     IN reqs' = [reqs EXCEPT ![s] =
          IF owner = NULL THEN Respond(r, ErrorResp(422))
          ELSE Respond(r, RelationshipsResp(owner,
                 SortedByIndex(AccountsIn(uuids), uuids)))]
  /\ UNCHANGED <<store, clock, lastIndex, walk>>

---------------------------------------------------------------------------
(* GET /:id/statuses *)

\* REMOTE_ACTOR_FETCH_POSTS, an environment setting (10 when unset): below
\* this many known posts a remote account's posts are fetched first
REMOTE_ACTOR_FETCH_POSTS == 3

\* account.blocks.some((b) => b.blockedAccountId === tokenOwner.id)
BlockedByTarget(owner, id) ==
  \E b \in blocks : b.accountId = id /\ b.blockedAccountId = owner

\* validation, findFirst with the target's blocks of the viewer, short-circuit
StatusesStart(s, owner, id, q) ==
  /\ reqs[s] = Idle
  /\ LET r == NewReq("statuses", owner, id, q)
         account == FindAccount(id)
     IN reqs' = [reqs EXCEPT ![s] =
          IF Precheck(owner, id) # 0 THEN Respond(r, ErrorResp(Precheck(owner, id)))
          ELSE IF account.id = NULL THEN Respond(r, ErrorResp(404))
          ELSE IF BlockedByTarget(owner, id) THEN Respond(r, PostsResp(<<>>, None))
          ELSE Goto(r, "count", [NoLoc EXCEPT !.account = account])]
  /\ UNCHANGED <<store, clock, lastIndex, walk>>

\* StatusesCount without the test of account.owner
StatusesCountAnyTarget(s) ==
  /\ At(s, "statuses", "count")
  /\ LET account == reqs[s].loc.account
         cnt == Cardinality({p \in posts : p.accountId = account.id})
     IN reqs' = [reqs EXCEPT ![s] =
          IF cnt < REMOTE_ACTOR_FETCH_POSTS
          THEN Goto(@, "backfill", @.loc)
          ELSE Goto(@, "following", @.loc)]
  /\ UNCHANGED <<store, clock, lastIndex, walk>>

\* select count() from posts where accountId = account.id, and the threshold
StatusesCount(s) ==
  /\ At(s, "statuses", "count")
  /\ LET account == reqs[s].loc.account
         cnt == Cardinality({p \in posts : p.accountId = account.id})
     IN reqs' = [reqs EXCEPT ![s] =
          IF ~account.owner /\ cnt < REMOTE_ACTOR_FETCH_POSTS
          THEN Goto(@, "backfill", @.loc)
          ELSE Goto(@, "following", @.loc)]
  /\ UNCHANGED <<store, clock, lastIndex, walk>>

\* what persistAccountPosts can store: any of the actor's recent public
\* posts not yet known, none when the fetch fails (errors are suppressed)
BackfillOutcomes == SUBSET (RemotePosts \ posts)

\* await persistAccountPosts(db, account, ..., { suppressError: true })
StatusesBackfill(s) ==
  /\ At(s, "statuses", "backfill")
  /\ \E fetched \in BackfillOutcomes : posts' = posts \cup fetched
  /\ reqs' = [reqs EXCEPT ![s] = Goto(@, "following", @.loc)]
  /\ UNCHANGED <<accounts, follows, blocks, mutes, clock, lastIndex, walk, owners>>

\* select followingId from follows where followerId = owner and followingId = id
StatusesFollowing(s) ==
  /\ At(s, "statuses", "following")
  /\ LET n == Cardinality({f \in follows :
                f.followerId = reqs[s].owner /\ f.followingId = reqs[s].id})
     IN reqs' = [reqs EXCEPT ![s] =
          Goto(@, "query", [@.loc EXCEPT !.nFollowing = n])]
  /\ UNCHANGED <<store, clock, lastIndex, walk>>

\* the post query, the next link and the response
StatusesQuery(s) ==
  /\ At(s, "statuses", "query")
  /\ LET r == reqs[s]
         postList == PostList(r.owner, r.id, r.loc.nFollowing, r.arg)
     IN reqs' = [reqs EXCEPT ![s] =
          Respond(@, PostsResp(Page(postList, r.arg.limit),
                               NextCursor(postList, r.arg.limit)))]
  /\ UNCHANGED <<store, clock, lastIndex, walk>>

\* the query of a statuses request
StatusesQueryArg(pinned, exclude_replies, only_media, limit, max_id, min_id) ==
  [pinned |-> pinned, exclude_replies |-> exclude_replies,
   only_media |-> only_media, limit |-> limit,
   max_id |-> max_id, min_id |-> min_id,
   exclude_reblogs |-> FALSE, tagged |-> NULL]

\* the query with exclude_reblogs=true
WithExcludeReblogs(q) == [q EXCEPT !.exclude_reblogs = TRUE]

\* the query with tagged=tag
WithTagged(q, tag) == [q EXCEPT !.tagged = tag]

---------------------------------------------------------------------------
(* The relationship engine of federation/account.ts, which the handlers   *)
(* call: followAccount, unfollowAccount, blockAccount; and the approval   *)
(* of a pending follow.                                                   *)

BlockBetween(a, b) ==
  \E x \in blocks :
    \/ (x.accountId = a /\ x.blockedAccountId = b)
    \/ (x.accountId = b /\ x.blockedAccountId = a)

\* followAccount returns null: a block in either direction, or self-follow
FollowRefused(a, b) == a = b \/ BlockBetween(a, b)

\* the follows table after followAccount(a, b): insert, on conflict do nothing
FollowInsert(a, target) ==
  IF \E f \in follows : f.followerId = a /\ f.followingId = target.id
  THEN follows
  ELSE follows \cup
         {[followerId |-> a, followingId |-> target.id,
           approved |-> IF target.protected THEN None ELSE Some(clock)]}

\* the follows table after unfollowAccount(a, b)
FollowDelete(a, b) ==
  {f \in follows : ~(f.followerId = a /\ f.followingId = b)}

\* the follows table after blockAccount(a, b): both directions are deleted
FollowsAfterBlock(a, b) ==
  {f \in follows : ~(\/ (f.followerId = a /\ f.followingId = b)
                     \/ (f.followerId = b /\ f.followingId = a))}

\* blockAccount does nothing when an account blocks itself
BlockRefused(a, b) == a = b

\* the blocks table after blockAccount(a, b): an upsert of Block(a, b)
BlocksAfterBlock(a, b) ==
  blocks \cup {[accountId |-> a, blockedAccountId |-> b]}

\* the activity sent to a remote account, none to a local one
Activity(type, from, target) ==
  IF target.owner THEN {} ELSE {[type |-> type, actor |-> from, to |-> target.id]}

\* the owner of a protected account accepts a pending follow request
AcceptFollow(a, b) ==
  /\ \E f \in follows :
       /\ f.followerId = a /\ f.followingId = b /\ IsNull(f.approved)
       /\ follows' = (follows \ {f}) \cup {[f EXCEPT !.approved = Some(clock)]}
  /\ UNCHANGED <<accounts, blocks, mutes, posts, clock, lastIndex, walk, reqs, owners>>

---------------------------------------------------------------------------
(* POST /:id/follow, /:id/unfollow *)

NoArg == [none |-> TRUE]

FollowStart(s, owner, id) == StartWithAccount(s, "follow", owner, id, NoArg)

\* FollowMutate without the null check on followAccount's result
FollowMutateUnchecked(s) ==
  /\ At(s, "follow", "mutate")
  /\ LET r == reqs[s]
         target == r.loc.account
     IN IF FollowRefused(r.owner, target.id)
        THEN /\ reqs' = [reqs EXCEPT ![s] = Goto(@, "reread", @.loc)]
             /\ UNCHANGED follows
        ELSE /\ follows' = FollowInsert(r.owner, target)
             /\ reqs' = [reqs EXCEPT ![s] = Goto(@, "reread",
                  [@.loc EXCEPT !.sent = @ \cup Activity("Follow", r.owner, target)])]
  /\ UNCHANGED <<accounts, blocks, mutes, posts, clock, lastIndex, walk, owners>>

\* followAccount(...); if (follow == null) return 403
FollowMutate(s) ==
  /\ At(s, "follow", "mutate")
  /\ LET r == reqs[s]
         target == r.loc.account
     IN IF FollowRefused(r.owner, target.id)
        THEN /\ reqs' = [reqs EXCEPT ![s] = Respond(@, ErrorResp(403))]
             /\ UNCHANGED follows
        ELSE /\ follows' = FollowInsert(r.owner, target)
             /\ reqs' = [reqs EXCEPT ![s] = Goto(@, "reread",
                  [@.loc EXCEPT !.sent = @ \cup Activity("Follow", r.owner, target)])]
  /\ UNCHANGED <<accounts, blocks, mutes, posts, clock, lastIndex, walk, owners>>

FollowReread(s) == Reread(s, "follow")

UnfollowStart(s, owner, id) == StartWithAccount(s, "unfollow", owner, id, NoArg)

\* await unfollowAccount(...)
UnfollowMutate(s) ==
  /\ At(s, "unfollow", "mutate")
  /\ LET r == reqs[s]
         target == r.loc.account
         existed == \E f \in follows :
                      f.followerId = r.owner /\ f.followingId = target.id
     IN /\ follows' = FollowDelete(r.owner, target.id)
        /\ reqs' = [reqs EXCEPT ![s] = Goto(@, "reread",
             [@.loc EXCEPT !.sent = @ \cup
                (IF existed THEN Activity("UndoFollow", r.owner, target) ELSE {})])]
  /\ UNCHANGED <<accounts, blocks, mutes, posts, clock, lastIndex, walk, owners>>

UnfollowReread(s) == Reread(s, "unfollow")

---------------------------------------------------------------------------
(* POST /:id/mute, /:id/unmute *)

MuteArg(notifications, duration) ==
  [notifications |-> notifications, duration |-> duration]

\* c.req.valid("json"): notifications defaults to true, duration to 0
MuteJson(notifications, duration) ==
  MuteArg(IF IsNull(notifications) THEN TRUE ELSE Val(notifications),
          IF IsNull(duration) THEN 0 ELSE Val(duration))

MuteStart(s, owner, id, arg) == StartWithAccount(s, "mute", owner, id, arg)

\* the row written by insert(mutes).values(...).onConflictDoUpdate(...)
MuteRow(owner, id, arg, now) ==
  [accountId |-> owner, mutedAccountId |-> id,
   notifications |-> arg.notifications,
   duration |-> DurationStr(arg.duration), created |-> now]

\* MuteUpsert as a plain insert, with no conflict target
MuteInsert(row) == mutes \cup {row}

\* the mutes table after the upsert on (accountId, mutedAccountId)
MuteUpsert(row) ==
  {m \in mutes : ~(m.accountId = row.accountId
                   /\ m.mutedAccountId = row.mutedAccountId)} \cup {row}

\* MuteMutate that also sends an activity to a remote muted account
MuteMutateNotifying(s) ==
  /\ At(s, "mute", "mutate")
  /\ LET r == reqs[s]
     IN mutes' = MuteUpsert(MuteRow(r.owner, r.loc.account.id, r.arg, clock))
  /\ reqs' = [reqs EXCEPT ![s] = Goto(@, "reread",
       [@.loc EXCEPT !.sent =
          @ \cup Activity("Mute", reqs[s].owner, reqs[s].loc.account)])]
  /\ UNCHANGED <<accounts, follows, blocks, posts, clock, lastIndex, walk, owners>>

\* the upsert, written at new Date()
MuteMutate(s) ==
  /\ At(s, "mute", "mutate")
  /\ LET r == reqs[s]
     IN mutes' = MuteUpsert(MuteRow(r.owner, r.loc.account.id, r.arg, clock))
  /\ reqs' = [reqs EXCEPT ![s] = Goto(@, "reread", @.loc)]
  /\ UNCHANGED <<accounts, follows, blocks, posts, clock, lastIndex, walk, owners>>

MuteReread(s) == Reread(s, "mute")

\* MuteDelete without the condition on mutedAccountId
MuteDeleteByOwner(owner, id) == {m \in mutes : m.accountId # owner}

\* the mutes table after delete(mutes).where(accountId = owner, muted = id)
MuteDelete(owner, id) ==
  {m \in mutes : ~(m.accountId = owner /\ m.mutedAccountId = id)}

\* validation, then the delete: unmute looks no account up before it
UnmuteStart(s, owner, id) ==
  /\ reqs[s] = Idle
  /\ LET r == NewReq("unmute", owner, id, NoArg)
     IN IF Precheck(owner, id) # 0
        THEN /\ reqs' = [reqs EXCEPT ![s] =
                  Respond(r, ErrorResp(Precheck(owner, id)))]
             /\ UNCHANGED mutes
        ELSE /\ mutes' = MuteDelete(owner, id)
             /\ reqs' = [reqs EXCEPT ![s] = Goto(r, "reread", NoLoc)]
  /\ UNCHANGED <<accounts, follows, blocks, posts, clock, lastIndex, walk, owners>>

UnmuteReread(s) == Reread(s, "unmute")

---------------------------------------------------------------------------
(* POST /:id/block, /:id/unblock *)

BlockStart(s, owner, id) == StartWithAccount(s, "block", owner, id, NoArg)

\* await blockAccount(db, fedCtx, owner, acct)
BlockMutate(s) ==
  /\ At(s, "block", "mutate")
  /\ LET r == reqs[s]
         target == r.loc.account
     IN IF BlockRefused(r.owner, target.id)
        THEN /\ UNCHANGED <<follows, blocks, owners>>
             /\ reqs' = [reqs EXCEPT ![s] = Goto(@, "reread", @.loc)]
        ELSE /\ follows' = FollowsAfterBlock(r.owner, target.id)
             /\ blocks' = BlocksAfterBlock(r.owner, target.id)
             /\ reqs' = [reqs EXCEPT ![s] = Goto(@, "reread",
                  [@.loc EXCEPT !.sent = @ \cup Activity("Block", r.owner, target)])]
  /\ UNCHANGED <<accounts, mutes, posts, clock, lastIndex, walk, owners>>

BlockReread(s) == Reread(s, "block")

UnblockStart(s, owner, id) == StartWithAccount(s, "unblock", owner, id, NoArg)

\* the blocks table after delete(blocks).where(accountId = owner, blocked = id)
BlockDelete(owner, id) ==
  {b \in blocks : ~(b.accountId = owner /\ b.blockedAccountId = id)}

\* UnblockMutate that also puts a follow of the unblocked account back
UnblockMutateRestoringFollow(s) ==
  /\ At(s, "unblock", "mutate")
  /\ blocks' = BlockDelete(reqs[s].owner, reqs[s].id)
  /\ follows' = FollowInsert(reqs[s].owner, reqs[s].loc.account)
  /\ reqs' = [reqs EXCEPT ![s] =
       Goto(@, IF reqs[s].loc.account.owner THEN "reread" ELSE "dispatch",
            [@.loc EXCEPT !.deleted = Cardinality(blocks \ blocks')])]
  /\ UNCHANGED <<accounts, mutes, posts, clock, lastIndex, walk, owners>>

\* the delete; the Undo(Block) follows when acct.owner == null
UnblockMutate(s) ==
  /\ At(s, "unblock", "mutate")
  /\ blocks' = BlockDelete(reqs[s].owner, reqs[s].id)
  /\ reqs' = [reqs EXCEPT ![s] =
       Goto(@, IF reqs[s].loc.account.owner THEN "reread" ELSE "dispatch",
            [@.loc EXCEPT !.deleted = Cardinality(blocks \ blocks')])]
  /\ UNCHANGED <<accounts, follows, mutes, posts, clock, lastIndex, walk, owners>>

\* the response of the framework to a handler that throws
UnhandledFault == ErrorResp(500)

\* what the handler does when the awaited sendActivity rejects
OnSendFailure(r) == Respond(r, UnhandledFault)

\* UnblockDispatch that puts the Block row back when the send fails
UnblockDispatchRollingBack(s) ==
  /\ At(s, "unblock", "dispatch")
  /\ \E delivered \in BOOLEAN :
       IF delivered
       THEN /\ reqs' = [reqs EXCEPT ![s] =
                 Goto(@, "reread", [@.loc EXCEPT !.sent =
                   @ \cup Activity("UndoBlock", reqs[s].owner, reqs[s].loc.account)])]
            /\ UNCHANGED blocks
       ELSE /\ reqs' = [reqs EXCEPT ![s] = OnSendFailure(@)]
            /\ blocks' = blocks \cup
                 {[accountId |-> reqs[s].owner, blockedAccountId |-> reqs[s].id]}
  /\ UNCHANGED <<accounts, follows, mutes, posts, clock, lastIndex, walk, owners>>

\* await fedCtx.sendActivity(..., new Undo({ object: new Block(...) })):
\* the activity is handed over, or the call rejects
UnblockDispatch(s) ==
  /\ At(s, "unblock", "dispatch")
  /\ \E delivered \in BOOLEAN :
       reqs' = [reqs EXCEPT ![s] =
         IF delivered
         THEN Goto(@, "reread", [@.loc EXCEPT !.sent =
                @ \cup Activity("UndoBlock", reqs[s].owner, reqs[s].loc.account)])
         ELSE OnSendFailure(@)]
  /\ UNCHANGED <<store, clock, lastIndex, walk>>

UnblockReread(s) == Reread(s, "unblock")

---------------------------------------------------------------------------
(* PATCH /update_credentials.  An object is the sequence of its entries,  *)
(* an array is a sequence whose elements are Some(entry) or None, a hole. *)
(* Requests carry no avatar and no header file.                           *)

\* an entry [name, value] of a fields object
Entry(name, value) == [name |-> name, value |-> value]

\* str.trim() === ""
IsBlank(str) == str \in {"", " "}

\* Object.entries(obj)
Entries(obj) == [i \in 1..Len(obj) |-> Some(obj[i])]

\* arr[i] = e for the zero-based index i: beyond the end the array grows
\* and the indexes skipped stay empty
ArraySet(arr, i, e) ==
  IF i + 1 <= Len(arr)
  THEN [arr EXCEPT ![i + 1] = Some(e)]
  ELSE arr \o [k \in 1..(i - Len(arr)) |-> None] \o <<Some(e)>>

HasHole(arr) == \E i \in 1..Len(arr) : IsNull(arr[i])

\* Object.fromEntries(arr) of an array without holes: a key keeps the place
\* of its first entry and the value of its last
RECURSIVE FromEntries(_)
FromEntries(arr) ==
  IF arr = <<>> THEN <<>>
  ELSE LET init == FromEntries(SubSeq(arr, 1, Len(arr) - 1))
           e == Val(arr[Len(arr)])
       IN IF \E i \in 1..Len(init) : init[i].name = e.name
          THEN [i \in 1..Len(init) |->
                  IF init[i].name = e.name THEN e ELSE init[i]]
          ELSE Append(init, e)

\* the form: display_name, note, locked and the four fields_attributes
\* slots, each absent (None) or given
CredForm(display_name, note, locked, attrs) ==
  [display_name |-> display_name, note |-> note, locked |-> locked,
   attrs |-> attrs]

\* for (const i of [0, 1, 2, 3]): the slots from i on, applied to the
\* fields array and to the list of rendered fields
RECURSIVE FieldsLoop(_, _, _, _)
FieldsLoop(i, attrs, fields, fieldHtmls) ==
  IF i > 3 THEN [fields |-> fields, fieldHtmls |-> fieldHtmls]
  ELSE LET a == attrs[i + 1]
       IN IF IsNull(a) \/ IsBlank(Val(a).name) \/ IsBlank(Val(a).value)
          THEN FieldsLoop(i + 1, attrs, fields, fieldHtmls)
          ELSE FieldsLoop(i + 1, attrs, ArraySet(fields, i, Val(a)),
                 Append(fieldHtmls,
                        Some(Entry(Val(a).name, Html(Val(a).value)))))

FindOwner(id) == CHOOSE o \in owners : o.id = id

\* c.json(serializeAccountOwner({ ...updatedOwners[0], account }))
CredentialsResp(account, owner, successor) ==
  [status |-> 200, kind |-> "credentials", account |-> account,
   owner |-> owner, successor |-> successor]

\* the owner check, then everything up to the first update: the token's
\* owner and account as loaded for the request, the fields loop, the name
CredStart(s, owner, form) ==
  /\ reqs[s] = Idle
  /\ LET r == NewReq("update_credentials", owner, owner, form)
     IN reqs' = [reqs EXCEPT ![s] =
          IF owner = NULL THEN Respond(r, ErrorResp(422))
          ELSE LET o == FindOwner(owner)
                   loop == FieldsLoop(0, form.attrs, Entries(o.fields), <<>>)
               IN Goto(r, "account",
                    [account |-> FindAccount(owner), owner |-> o,
                     fields |-> loop.fields, fieldHtmls |-> loop.fieldHtmls,
                     sent |-> {}])]
  /\ UNCHANGED <<store, clock, lastIndex, walk>>

\* the stored row after db.update(accounts).set({...}); account is the
\* token's copy, whose values stand in for what the form leaves out
CredAccountRow(stored, account, form, fieldHtmls) ==
  [stored EXCEPT
     !.name = IF IsNull(form.display_name) THEN account.name
              ELSE Val(form.display_name),
     !.bioHtml = IF IsNull(form.note) THEN account.bioHtml
                 ELSE Html(Val(form.note)),
     !.fieldHtmls = FromEntries(fieldHtmls),
     !.protected = IF IsNull(form.locked) THEN account.protected
                   ELSE Val(form.locked)]

\* await db.update(accounts).set(...).where(eq(accounts.id, owner.id))
CredUpdateAccount(s) ==
  /\ At(s, "update_credentials", "account")
  /\ LET r == reqs[s]
         row == CredAccountRow(FindAccount(r.owner), r.loc.account, r.arg,
                               r.loc.fieldHtmls)
     IN /\ accounts' = {a \in accounts : a.id # r.owner} \cup {row}
        /\ reqs' = [reqs EXCEPT ![s] =
             Goto(@, "owner", [@.loc EXCEPT !.account = row])]
  /\ UNCHANGED <<follows, blocks, mutes, posts, owners, clock, lastIndex, walk>>

\* the stored row after db.update(accountOwners).set({...}); owner is the
\* token's copy
CredOwnerRow(stored, owner, form, fields) ==
  [stored EXCEPT
     !.bio = IF IsNull(form.note) THEN owner.bio ELSE Val(form.note),
     !.fields = FromEntries(fields)]

\* CredUpdateOwner that goes on to the dispatch with the update not issued
CredUpdateOwnerDeferred(s) ==
  /\ At(s, "update_credentials", "owner")
  /\ reqs' = [reqs EXCEPT ![s] =
       IF HasHole(reqs[s].loc.fields) THEN Respond(@, UnhandledFault)
       ELSE Goto(@, "dispatch", @.loc)]
  /\ UNCHANGED <<store, clock, lastIndex, walk>>

\* await db.update(accountOwners).set(...): Object.fromEntries(fields)
\* throws on a hole of the array, before the update is issued
CredUpdateOwner(s) ==
  /\ At(s, "update_credentials", "owner")
  /\ LET r == reqs[s]
     IN IF HasHole(r.loc.fields)
        THEN /\ reqs' = [reqs EXCEPT ![s] = Respond(@, UnhandledFault)]
             /\ UNCHANGED owners
        ELSE LET row == CredOwnerRow(FindOwner(r.owner), r.loc.owner, r.arg,
                                     r.loc.fields)
             IN /\ owners' = {o \in owners : o.id # r.owner} \cup {row}
                /\ reqs' = [reqs EXCEPT ![s] =
                     Goto(@, "dispatch", [@.loc EXCEPT !.owner = row])]
  /\ UNCHANGED <<accounts, follows, blocks, mutes, posts, clock, lastIndex, walk>>

\* object: await fedCtx.getActor(handle): the actor document, built from
\* the stored rows when the activity is made
ActorDocument(id) ==
  [name |-> FindAccount(id).name, summary |-> FindAccount(id).bioHtml,
   locked |-> FindAccount(id).protected,
   attachments |-> FindAccount(id).fieldHtmls]

\* new vocab.Update({ actor, object }) sent to "followers"
UpdateActivity(id) ==
  [type |-> "Update", actor |-> id, to |-> "followers",
   object |-> ActorDocument(id)]

\* the response, when the updated account has no successorId
CredRespond(r) ==
  Respond(r, CredentialsResp(r.loc.account, r.loc.owner, NULL))

\* await fedCtx.sendActivity(..., "followers", new vocab.Update(...)): the
\* activity is handed over, or the call rejects; then the successor
CredDispatch(s) ==
  /\ At(s, "update_credentials", "dispatch")
  /\ \E delivered \in BOOLEAN :
       reqs' = [reqs EXCEPT ![s] =
         IF ~delivered THEN OnSendFailure(@)
         ELSE LET r == [reqs[s] EXCEPT !.loc.sent =
                          @ \cup {UpdateActivity(reqs[s].owner)}]
              IN IF r.loc.account.successorId = NULL
                 THEN CredRespond(r)
                 ELSE Goto(r, "successor", r.loc)]
  /\ UNCHANGED <<store, clock, lastIndex, walk>>

\* findFirst({ where: eq(accounts.id, updatedAccounts[0].successorId) })
CredSuccessor(s) ==
  /\ At(s, "update_credentials", "successor")
  /\ LET r == reqs[s]
     IN reqs' = [reqs EXCEPT ![s] =
          Respond(@, CredentialsResp(r.loc.account, r.loc.owner,
                       FindAccount(r.loc.account.successorId).id))]
  /\ UNCHANGED <<store, clock, lastIndex, walk>>

---------------------------------------------------------------------------
(* Remote actors and persistAccount *)

\* what lookupObject(identifier) can return: the actor named by the handle,
\* with or without its leading "@"; or null when the fetch fails
LookupObject(identifier) ==
  {a \in RemoteActors :
     Handle(a.user, a.host) = <<"@">> \o StripLeadingAt(identifier)}
  \cup {NoActor}

\* isActor(actor)
IsActor(actor) == actor # NoActor

\* the first id of FreshIds that no row has
FreshId ==
  FreshIds[CHOOSE i \in 1..Len(FreshIds) :
    /\ \A a \in accounts : a.id # FreshIds[i]
    /\ \A j \in 1..(i - 1) : \E a \in accounts : a.id = FreshIds[j]]

\* the accounts table after persistAccount(db, actor): an upsert on the IRI
PersistAccount(actor) ==
  IF \E a \in accounts : a.iri = ActorIri(actor)
  THEN accounts
  ELSE accounts \cup {ActorRow(FreshId, actor)}

\* the row persistAccount returns
PersistedRow(actor, table) == CHOOSE a \in table : a.iri = ActorIri(actor)

---------------------------------------------------------------------------
(* GET /lookup *)

LookupArg(acct, skip_webfinger) ==
  [acct |-> acct, skip_webfinger |-> skip_webfinger]

\* acct.includes("@") ? `@${acct}` : `@${acct}@${host}`
LookupHandle(acct) ==
  IF IncludesAt(acct) THEN <<"@">> \o acct
  ELSE <<"@">> \o acct \o <<"@">> \o LocalHost

\* c.json(serializeAccount(...)) / serializeAccountOwner(...)
AccountResp(account, successor) ==
  [status |-> 200, kind |-> "account", body |-> account.id,
   successor |-> successor]

\* findFirst by handle; 404 unless skip_webfinger is "false"
LookupStart(s, owner, arg) ==
  /\ reqs[s] = Idle
  /\ LET r == NewReq("lookup", owner, NULL, arg)
         found == {a \in accounts : a.handle = LookupHandle(arg.acct)}
     IN reqs' = [reqs EXCEPT ![s] =
          IF found # {}
          THEN LET account == CHOOSE a \in found : TRUE
               IN Respond(r, AccountResp(account, account.successorId))
          ELSE IF arg.skip_webfinger # "false" THEN Respond(r, ErrorResp(404))
          ELSE Goto(r, "deref", NoLoc)]
  /\ UNCHANGED <<store, clock, lastIndex, walk>>

\* const actor = await lookupObject(acct, options); if (!isActor(actor)) 404
LookupDeref(s) ==
  /\ At(s, "lookup", "deref")
  /\ \E actor \in LookupObject(reqs[s].arg.acct) :
       reqs' = [reqs EXCEPT ![s] =
         IF ~IsActor(actor)
         THEN Respond([@ EXCEPT !.loc.derefs = @ + 1], ErrorResp(404))
         ELSE Goto(@, "persist",
                [@.loc EXCEPT !.derefs = @ + 1, !.account = actor])]
  /\ UNCHANGED <<store, clock, lastIndex, walk>>

\* const loaded = await persistAccount(db, actor, c.req.url, options)
LookupPersist(s) ==
  /\ At(s, "lookup", "persist")
  /\ accounts' = PersistAccount(reqs[s].loc.account)
  /\ reqs' = [reqs EXCEPT ![s] = Goto(@, "successor",
       [@.loc EXCEPT !.account = PersistedRow(reqs[s].loc.account, accounts')])]
  /\ UNCHANGED <<follows, blocks, mutes, posts, clock, lastIndex, walk, owners>>

\* successor: findFirst({ where: eq(accounts.successorId, loaded.id) })
LookupSuccessor(s) ==
  /\ At(s, "lookup", "successor")
  /\ LET loaded == reqs[s].loc.account
         found == {a \in accounts : a.successorId = loaded.id}
     IN reqs' = [reqs EXCEPT ![s] = Respond(@, AccountResp(loaded,
          IF found = {} THEN NULL ELSE (CHOOSE a \in found : TRUE).id))]
  /\ UNCHANGED <<store, clock, lastIndex, walk>>

---------------------------------------------------------------------------
(* GET /search *)

\* [\p{L}\p{N}._-]+ : the user part of a handle
IsUserPart(str) ==
  Len(str) >= 1 /\ \A i \in 1..Len(str) : str[i] \in Letters \cup {".", "_", "-"}

\* (?:[\p{L}\p{N}][\p{L}\p{N}_-]*\.)+[\p{L}\p{N}]{2,} : labels, then a
\* top-level label of two characters or more
IsDomainPart(str) ==
  LET dots == {i \in 1..Len(str) : str[i] = "."}
      Start(i) == i = 1 \/ (i - 1) \in dots
  IN /\ dots # {}
     /\ \A i \in 1..Len(str) :
          /\ str[i] \in Letters \cup {".", "_", "-"}
          /\ (Start(i) => str[i] \in Letters)
     /\ \A i \in 1..Len(str) :
          (\A d \in dots : d < i) => str[i] \in Letters
     /\ \E i \in 1..Len(str) : i + 1 <= Len(str) /\ \A d \in dots : d < i

\* the pattern of HANDLE_PATTERN, anchored at both ends
HandleShape(str) ==
  LET body == StripLeadingAt(str)
      ats == {i \in 1..Len(body) : body[i] = "@"}
  IN /\ Cardinality(ats) = 1
     /\ LET at == CHOOSE i \in ats : TRUE
        IN /\ IsUserPart(SubSeq(body, 1, at - 1))
           /\ IsDomainPart(SubSeq(body, at + 1, Len(body)))

\* HANDLE_PATTERN.test(str) of a global regex: the match starts at lastIndex,
\* and "^" matches at index 0 only
PatternTest(str) == lastIndex = 0 /\ HandleShape(str)

\* lastIndex after HANDLE_PATTERN.test(str): the end of the match, or 0
PatternLastIndex(str) == IF PatternTest(str) THEN Len(str) ELSE 0

SearchArg(q, limit, offset, resolve) ==
  [q |-> q, limit |-> limit, offset |-> offset, resolve |-> resolve]

\* ilike(accounts.handle, `@${query.q.replace(/^@/, "")}`)
ExactHandle(q) == <<"@">> \o StripLeadingAt(q)

\* the resolve branch: the pattern test, the exact match, and where to go
SearchStart(s, arg) ==
  /\ reqs[s] = Idle
  /\ LET r == NewReq("search", NULL, NULL, arg)
         resolving == arg.resolve /\ PatternTest(arg.q) /\ arg.offset < 1
         exactMatch == {a \in accounts : a.handle = ExactHandle(arg.q)}
     IN reqs' = [reqs EXCEPT ![s] =
          IF resolving /\ exactMatch # {}
          THEN Goto(r, "deref", NoLoc)
          ELSE Goto(r, "list", NoLoc)]
  /\ lastIndex' = IF arg.resolve THEN PatternLastIndex(arg.q) ELSE lastIndex
  /\ UNCHANGED <<store, clock, walk>>

\* const actor = await lookupObject(query.q, options)
SearchDeref(s) ==
  /\ At(s, "search", "deref")
  /\ \E actor \in LookupObject(reqs[s].arg.q) :
       reqs' = [reqs EXCEPT ![s] =
         Goto(@, IF IsActor(actor) THEN "persist" ELSE "list",
              [@.loc EXCEPT !.derefs = @ + 1, !.account = actor])]
  /\ UNCHANGED <<store, clock, lastIndex, walk>>

\* if (isActor(actor)) await persistAccount(db, actor, c.req.url, options)
SearchPersist(s) ==
  /\ At(s, "search", "persist")
  /\ accounts' = PersistAccount(reqs[s].loc.account)
  /\ reqs' = [reqs EXCEPT ![s] = Goto(@, "list", @.loc)]
  /\ UNCHANGED <<follows, blocks, mutes, posts, clock, lastIndex, walk, owners>>

\* the four desc(ilike(...)) keys of orderBy, most significant first
SearchRank(a, q) ==
  (IF a.handle = ExactHandle(q) THEN 8 ELSE 0)
  + (IF a.name = q THEN 4 ELSE 0)
  + (IF StartsWith(a.handle, ExactHandle(q)) THEN 2 ELSE 0)
  + (IF StartsWith(a.name, q) THEN 1 ELSE 0)

\* the orders findMany may return the matching rows in
SearchOrders(q) ==
  LET matching == {a \in accounts : Contains(a.handle, q) \/ Contains(a.name, q)}
      n == Cardinality(matching)
  IN {sq \in [1..n -> matching] :
        /\ \A i, j \in 1..n : i # j => sq[i] # sq[j]
        /\ \A i, j \in 1..n : i < j => SearchRank(sq[i], q) >= SearchRank(sq[j], q)}

\* offset and limit
Slice(sq, offset, limit) ==
  SubSeq(sq, offset + 1, IF Len(sq) < offset + limit THEN Len(sq) ELSE offset + limit)

AccountListResp(list) ==
  [status |-> 200, kind |-> "accounts", body |-> [i \in 1..Len(list) |-> list[i].id]]

\* findMany({ where: or(ilike handle, ilike name), orderBy, offset, limit })
SearchList(s) ==
  /\ At(s, "search", "list")
  /\ \E sq \in SearchOrders(reqs[s].arg.q) :
       reqs' = [reqs EXCEPT ![s] = Respond(@,
         AccountListResp(Slice(sq, reqs[s].arg.offset, reqs[s].arg.limit)))]
  /\ UNCHANGED <<store, clock, lastIndex, walk>>

---------------------------------------------------------------------------
(* GET /:id/followers, /:id/following, /familiar_followers *)

\* the orders findMany may return the rows in under orderBy: desc(approved)
ApprovedOrders(rows) ==
  LET n == Cardinality(rows)
  IN {sq \in [1..n -> rows] :
        /\ \A i, j \in 1..n : i # j => sq[i] # sq[j]
        /\ \A i, j \in 1..n : i < j => Val(sq[i].approved) >= Val(sq[j].approved)}

\* c.json(followers.map((f) => serialize...(f.follower / f.following)))
FollowListResp(ids) == [status |-> 200, kind |-> "accounts", body |-> ids]

\* where: and(eq(follows.followingId, accountId), isNotNull(follows.approved))
FollowersGet(s, id) ==
  /\ reqs[s] = Idle
  /\ LET r == NewReq("followers", NULL, id, NoArg)
         rows == {f \in follows : f.followingId = id /\ ~IsNull(f.approved)}
     IN IF ~IsUuid(id)
        THEN reqs' = [reqs EXCEPT ![s] = Respond(r, ErrorResp(404))]
        ELSE \E sq \in ApprovedOrders(rows) :
               reqs' = [reqs EXCEPT ![s] = Respond(r,
                 FollowListResp([i \in 1..Len(sq) |-> sq[i].followerId]))]
  /\ UNCHANGED <<store, clock, lastIndex, walk>>

\* where: and(eq(follows.followerId, accountId), isNotNull(follows.approved))
FollowingGet(s, id) ==
  /\ reqs[s] = Idle
  /\ LET r == NewReq("following", NULL, id, NoArg)
         rows == {f \in follows : f.followerId = id /\ ~IsNull(f.approved)}
     IN IF ~IsUuid(id)
        THEN reqs' = [reqs EXCEPT ![s] = Respond(r, ErrorResp(404))]
        ELSE \E sq \in ApprovedOrders(rows) :
               reqs' = [reqs EXCEPT ![s] = Respond(r,
                 FollowListResp([i \in 1..Len(sq) |-> sq[i].followingId]))]
  /\ UNCHANGED <<store, clock, lastIndex, walk>>

\* c.json(result): one { id, accounts } per well-formed id
FamiliarResp(result) == [status |-> 200, kind |-> "familiar", body |-> result]

\* the owner check and (c.req.queries("id[]") ?? []).filter(isUuid)
FamiliarStart(s, owner, ids) ==
  /\ reqs[s] = Idle
  /\ LET r == NewReq("familiar_followers", owner, NULL, RelationshipsArg(ids))
         uuids == SelectSeq(ids, IsUuid)
     IN reqs' = [reqs EXCEPT ![s] =
          IF owner = NULL THEN Respond(r, ErrorResp(422))
          ELSE IF uuids = <<>> THEN Respond(r, FamiliarResp(<<>>))
          ELSE Goto(r, "loop", [ids |-> uuids, result |-> <<>>, sent |-> {}])]
  /\ UNCHANGED <<store, clock, lastIndex, walk>>

\* the accounts of findMany({ where: and(inArray(accounts.id, followers of
\* id), inArray(accounts.id, accounts the owner follows)) }); the query
\* has no orderBy, the rows are kept as a set
FamiliarAccounts(owner, id) ==
  {a.id : a \in {x \in accounts :
     /\ x.id \in {f.followerId : f \in {g \in follows : g.followingId = id}}
     /\ x.id \in {f.followingId : f \in {g \in follows : g.followerId = owner}}}}

\* one turn of for (const id of ids): the awaited findMany and result.push;
\* the response follows the last turn
FamiliarLoop(s) ==
  /\ At(s, "familiar_followers", "loop")
  /\ LET r == reqs[s]
         id == r.loc.ids[Len(r.loc.result) + 1]
         result == Append(r.loc.result,
                     [id |-> id, accounts |-> FamiliarAccounts(r.owner, id)])
     IN reqs' = [reqs EXCEPT ![s] =
          IF Len(result) = Len(r.loc.ids)
          THEN Respond(Goto(@, "loop", [@.loc EXCEPT !.result = result]),
                       FamiliarResp(result))
          ELSE Goto(@, "loop", [@.loc EXCEPT !.result = result])]
  /\ UNCHANGED <<store, clock, lastIndex, walk>>

---------------------------------------------------------------------------
(* Time *)

\* the wall clock advances to the later instant t
Tick(t) ==
  /\ t > clock
  /\ clock' = t
  /\ UNCHANGED <<store, lastIndex, walk, reqs>>

---------------------------------------------------------------------------
(* Spec: the relationship handlers and the statuses listing, one request   *)
(* at a time, over two local accounts (a2 protected) and one remote one.   *)

\* the one request slot of the sequential specifications
RelSlot == "req"

\* the token's accountOwner: a local account, or none
RelOwners == {"a1", NULL}

RelBlockers == {"a1", "a2", NULL}

\* the :id parameter: the accounts, an id of no account, a malformed id
RelTargets == {"a1", "a2", "r1", "nx", "bad"}

RelQueries ==
  {StatusesQueryArg(pin, noReplies, media, DefaultLimit, None, None) :
     pin \in BOOLEAN, noReplies \in BOOLEAN, media \in BOOLEAN}
  \cup {WithTagged(StatusesQueryArg(FALSE, FALSE, FALSE, DefaultLimit,
                                    None, None), "t"),
        WithExcludeReblogs(StatusesQueryArg(FALSE, FALSE, FALSE, DefaultLimit,
                                            None, None))}

RelMuteArgs == {MuteArg(TRUE, 0)}

\* the id[] parameters of a relationships request: up to two ids, among
\* them repeated ids, an id of no account and a malformed id
RelIdLists ==
  LET ids == {"a2", "r1", "nx", "bad"}
  IN {<<>>} \cup {<<x>> : x \in ids} \cup {<<x, y>> : x \in ids, y \in ids}

Init ==
  /\ accounts = LocalAccounts \cup {RemoteRow("r1")}
  /\ follows = {}
  /\ blocks = {}
  /\ mutes = {}
  /\ posts = KnownPosts
  /\ clock = 0
  /\ lastIndex = 0
  /\ owners = LocalOwners
  /\ reqs = [s \in {RelSlot} |-> Idle]
  /\ walk = NoWalk

Next ==
  \/ \E o \in RelBlockers, id \in RelTargets, q \in RelQueries :
       StatusesStart(RelSlot, o, id, q)
  \/ StatusesCount(RelSlot)
  \/ StatusesBackfill(RelSlot)
  \/ StatusesFollowing(RelSlot)
  \/ StatusesQuery(RelSlot)
  \/ \E o \in RelOwners, id \in RelTargets : FollowStart(RelSlot, o, id)
  \/ FollowMutate(RelSlot)
  \/ FollowReread(RelSlot)
  \/ \E o \in RelOwners, id \in RelTargets : UnfollowStart(RelSlot, o, id)
  \/ UnfollowMutate(RelSlot)
  \/ UnfollowReread(RelSlot)
  \/ \E o \in RelOwners, id \in RelTargets, arg \in RelMuteArgs :
       MuteStart(RelSlot, o, id, arg)
  \/ MuteMutate(RelSlot)
  \/ MuteReread(RelSlot)
  \/ \E o \in RelOwners, id \in RelTargets : UnmuteStart(RelSlot, o, id)
  \/ UnmuteReread(RelSlot)
  \/ \E o \in RelBlockers, id \in RelTargets : BlockStart(RelSlot, o, id)
  \/ BlockMutate(RelSlot)
  \/ BlockReread(RelSlot)
  \/ \E o \in RelBlockers, id \in RelTargets : UnblockStart(RelSlot, o, id)
  \/ UnblockMutate(RelSlot)
  \/ UnblockDispatch(RelSlot)
  \/ UnblockReread(RelSlot)
  \/ AcceptFollow("a1", "a2")
  \/ \E o \in RelOwners, ids \in RelIdLists : RelationshipsGet(RelSlot, o, ids)
  \/ Finish(RelSlot)

Spec == Init /\ [][Next]_vars

---------------------------------------------------------------------------
(* ResolveSpec: lookup and search, one request at a time, starting with no *)
(* row for the remote actor c@r.ex, or with its row stored and the local   *)
(* account a2 moved to it.                                                 *)

\* limit of GET /search when the query gives none
SearchDefaultLimit == 40

ActorAcct == <<"c", "@">> \o RemoteHost

ResolveAccts ==
  {ActorAcct, <<"@">> \o ActorAcct, <<"b">>, <<"e", "@">> \o RemoteHost}

ResolveLookupArgs ==
  {LookupArg(acct, skip) : acct \in ResolveAccts, skip \in {"true", "false"}}

ResolveSearchArgs ==
  {SearchArg(q, SearchDefaultLimit, offset, resolve) :
     q \in ResolveAccts, offset \in {0, 1}, resolve \in BOOLEAN}

\* the accounts table: the local accounts alone, or with the row of the
\* remote actor, the account a2 has moved to (a2.successorId)
ResolveAccounts ==
  {LocalAccounts,
   {[a EXCEPT !.successorId = IF a.id = "a2" THEN "r1" ELSE @] :
      a \in LocalAccounts} \cup {RemoteRow("r1")}}

ResolveInit ==
  /\ accounts \in ResolveAccounts
  /\ follows = {}
  /\ blocks = {}
  /\ mutes = {}
  /\ posts = {}
  /\ clock = 0
  /\ lastIndex = 0
  /\ owners = LocalOwners
  /\ reqs = [s \in {RelSlot} |-> Idle]
  /\ walk = NoWalk

ResolveNext ==
  \/ \E o \in RelOwners, arg \in ResolveLookupArgs : LookupStart(RelSlot, o, arg)
  \/ LookupDeref(RelSlot)
  \/ LookupPersist(RelSlot)
  \/ LookupSuccessor(RelSlot)
  \/ \E arg \in ResolveSearchArgs : SearchStart(RelSlot, arg)
  \/ SearchDeref(RelSlot)
  \/ SearchPersist(RelSlot)
  \/ SearchList(RelSlot)
  \/ Finish(RelSlot)

ResolveSpec == ResolveInit /\ [][ResolveNext]_vars

---------------------------------------------------------------------------
(* PageSpec: a client pages through the statuses of a2 as a1, following    *)
(* the next link of every page.                                            *)

\* the largest post id, published time and page limit of the paging runs
MaxPosts == 4

MaxPublished == 2

MaxLimit == 2

PagePosts ==
  {PostRow(i, "a2", "public", None, None, t, {}, {}, FALSE) :
     i \in 1..MaxPosts, t \in 1..MaxPublished}

\* the post tables: every id at most once, with any published time
PagePostSets ==
  {S \in SUBSET PagePosts : \A p, r \in S : p.id = r.id => p = r}

PageInit ==
  /\ accounts = LocalAccounts \cup {RemoteRow("r1")}
  /\ follows = {}
  /\ blocks = {}
  /\ mutes = {}
  /\ posts \in PagePostSets
  /\ clock = 0
  /\ lastIndex = 0
  /\ owners = LocalOwners
  /\ reqs = [s \in {RelSlot} |-> Idle]
  /\ \E limit \in 1..MaxLimit :
       walk = [limit |-> limit, cursor |-> None, seen |-> <<>>,
               pages |-> 0, done |-> FALSE]

\* the client requests the first page, or the page of the next link
WalkRequest ==
  /\ ~walk.done
  /\ StatusesStart(RelSlot, "a1", "a2",
       StatusesQueryArg(FALSE, FALSE, FALSE, walk.limit, walk.cursor, None))

\* the client reads the page and its Link header
WalkCollect ==
  /\ At(RelSlot, "statuses", "done")
  /\ reqs[RelSlot].resp.kind = "posts"
  /\ walk' = [walk EXCEPT !.seen = @ \o reqs[RelSlot].resp.body,
                          !.cursor = reqs[RelSlot].resp.next,
                          !.pages = @ + 1,
                          !.done = IsNull(reqs[RelSlot].resp.next)]
  /\ reqs' = [reqs EXCEPT ![RelSlot] = Idle]
  /\ UNCHANGED <<store, clock, lastIndex>>

PageNext ==
  \/ WalkRequest
  \/ StatusesCount(RelSlot)
  \/ StatusesFollowing(RelSlot)
  \/ StatusesQuery(RelSlot)
  \/ WalkCollect

PageSpec == PageInit /\ [][PageNext]_vars

---------------------------------------------------------------------------
(* MuteSpec: a1 mutes and unmutes with durations around one day, lists the *)
(* statuses of a2, and the clock advances.                                 *)

\* the instants at which the system is observed
ClockPoints == {0, 1, 2, 86399, 86400, 86401, 86402}

\* the duration parameter of a mute request, in seconds
MuteDurations == {-1, 0, 1, 86399, 86400, 86401}

\* the bodies of the mute requests, among them the body with no member
MuteArgs ==
  {MuteJson(n, d) :
     n \in {None, Some(TRUE), Some(FALSE)},
     d \in {None} \cup {Some(x) : x \in MuteDurations}}

MuteTargets == {"a1", "a2"}

MuteInit ==
  /\ accounts = LocalAccounts \cup {RemoteRow("r1")}
  /\ follows = {}
  /\ blocks = {}
  /\ mutes = {}
  /\ posts = KnownPosts
  /\ clock = 0
  /\ lastIndex = 0
  /\ owners = LocalOwners
  /\ reqs = [s \in {RelSlot} |-> Idle]
  /\ walk = NoWalk

MuteNext ==
  \/ \E id \in MuteTargets, arg \in MuteArgs : MuteStart(RelSlot, "a1", id, arg)
  \/ MuteMutate(RelSlot)
  \/ MuteReread(RelSlot)
  \/ \E id \in MuteTargets : UnmuteStart(RelSlot, "a1", id)
  \/ UnmuteReread(RelSlot)
  \/ \E id \in MuteTargets : StatusesStart(RelSlot, "a1", id,
        StatusesQueryArg(FALSE, FALSE, FALSE, DefaultLimit, None, None))
  \/ StatusesCount(RelSlot)
  \/ StatusesFollowing(RelSlot)
  \/ StatusesQuery(RelSlot)
  \/ \E t \in ClockPoints : Tick(t)
  \/ Finish(RelSlot)

MuteSpec == MuteInit /\ [][MuteNext]_vars

---------------------------------------------------------------------------
(* CredSpec: a1 updates its credentials, one request at a time.            *)

\* the profile field named in slot i of a form
SlotEntry(i) ==
  Entry(<<"n1", "n2", "n3", "n4">>[i], <<"v1", "v2", "v3", "v4">>[i])

\* the fields_attributes of a form: every subset of the four slots, and
\* slot 0 also with a blank value
CredAttrs ==
  {[i \in 1..4 |-> IF i \in given THEN Some(SlotEntry(i)) ELSE None] :
     given \in SUBSET (1..4)}
  \cup {<<Some(Entry("n1", " ")), None, None, None>>}

CredForms ==
  {CredForm(name, note, locked, attrs) :
     name \in {None, Some(<<"x">>)}, note \in {None, Some("hi")},
     locked \in {None, Some(TRUE)}, attrs \in CredAttrs}

\* a1 has moved to a2, or has not
CredAccounts ==
  {LocalAccounts,
   {[a EXCEPT !.successorId = IF a.id = "a1" THEN "a2" ELSE @] :
      a \in LocalAccounts}}

CredInit ==
  /\ accounts \in CredAccounts
  /\ follows = {}
  /\ blocks = {}
  /\ mutes = {}
  /\ posts = {}
  /\ clock = 0
  /\ lastIndex = 0
  /\ owners = LocalOwners
  /\ reqs = [s \in {RelSlot} |-> Idle]
  /\ walk = NoWalk

CredNext ==
  \/ \E o \in RelOwners, form \in CredForms : CredStart(RelSlot, o, form)
  \/ CredUpdateAccount(RelSlot)
  \/ CredUpdateOwner(RelSlot)
  \/ CredDispatch(RelSlot)
  \/ CredSuccessor(RelSlot)
  \/ Finish(RelSlot)

CredSpec == CredInit /\ [][CredNext]_vars

---------------------------------------------------------------------------
(* OrderSpec: the requests whose handler dispatches an activity itself,   *)
(* unblock and update_credentials, with block to have something to undo.  *)

OrderForms ==
  {f \in CredForms :
     f.attrs \in {<<None, None, None, None>>,
                  <<Some(SlotEntry(1)), None, None, None>>}}

OrderTargets == {"a2", "r1"}

OrderInit ==
  /\ \E local \in CredAccounts : accounts = local \cup {RemoteRow("r1")}
  /\ follows = {}
  /\ blocks = {}
  /\ mutes = {}
  /\ posts = {}
  /\ clock = 0
  /\ lastIndex = 0
  /\ owners = LocalOwners
  /\ reqs = [s \in {RelSlot} |-> Idle]
  /\ walk = NoWalk

OrderNext ==
  \/ \E o \in RelOwners, form \in OrderForms : CredStart(RelSlot, o, form)
  \/ CredUpdateAccount(RelSlot)
  \/ CredUpdateOwner(RelSlot)
  \/ CredDispatch(RelSlot)
  \/ CredSuccessor(RelSlot)
  \/ \E o \in RelOwners, id \in OrderTargets : BlockStart(RelSlot, o, id)
  \/ BlockMutate(RelSlot)
  \/ BlockReread(RelSlot)
  \/ \E o \in RelOwners, id \in OrderTargets : UnblockStart(RelSlot, o, id)
  \/ UnblockMutate(RelSlot)
  \/ UnblockDispatch(RelSlot)
  \/ UnblockReread(RelSlot)
  \/ Finish(RelSlot)

OrderSpec == OrderInit /\ [][OrderNext]_vars

---------------------------------------------------------------------------
(* ConcSpec: two requests at a time, a1 muting and unmuting a2 and r1,    *)
(* their steps interleaved, while the clock advances.                     *)

ConcSlots == {"req1", "req2"}

ConcMuteArgs == {MuteArg(TRUE, 0), MuteArg(FALSE, 60)}

ConcTargets == {"a2", "r1"}

ConcClockPoints == {1, 2}

ConcInit ==
  /\ accounts = LocalAccounts \cup {RemoteRow("r1")}
  /\ follows = {}
  /\ blocks = {}
  /\ mutes = {}
  /\ posts = KnownPosts
  /\ clock = 0
  /\ lastIndex = 0
  /\ owners = LocalOwners
  /\ reqs = [s \in ConcSlots |-> Idle]
  /\ walk = NoWalk

ConcNext ==
  \/ \E s \in ConcSlots, id \in ConcTargets, arg \in ConcMuteArgs :
       MuteStart(s, "a1", id, arg)
  \/ \E s \in ConcSlots : MuteMutate(s)
  \/ \E s \in ConcSlots : MuteReread(s)
  \/ \E s \in ConcSlots, id \in ConcTargets : UnmuteStart(s, "a1", id)
  \/ \E s \in ConcSlots : UnmuteReread(s)
  \/ \E t \in ConcClockPoints : Tick(t)
  \/ \E s \in ConcSlots : Finish(s)

ConcSpec == ConcInit /\ [][ConcNext]_vars

---------------------------------------------------------------------------
(* ListSpec: the follow listings, one request at a time, with follows made *)
(* by both local accounts and the approval of the pending ones.            *)

ListOwners == {"a1", "a2"}

ListTargets == {"a1", "a2", "r1", "bad"}

ListIdLists == {<<"r1">>, <<"a2">>, <<"bad", "r1">>, <<"a2", "r1">>}

ListClockPoints == {1}

ListInit ==
  /\ accounts = LocalAccounts \cup {RemoteRow("r1")}
  /\ follows = {}
  /\ blocks = {}
  /\ mutes = {}
  /\ posts = {}
  /\ clock = 0
  /\ lastIndex = 0
  /\ owners = LocalOwners
  /\ reqs = [s \in {RelSlot} |-> Idle]
  /\ walk = NoWalk

ListNext ==
  \/ \E o \in ListOwners, id \in ListTargets : FollowStart(RelSlot, o, id)
  \/ FollowMutate(RelSlot)
  \/ FollowReread(RelSlot)
  \/ \E o \in ListOwners, id \in ListTargets : UnfollowStart(RelSlot, o, id)
  \/ UnfollowMutate(RelSlot)
  \/ UnfollowReread(RelSlot)
  \/ \E a \in ListOwners : AcceptFollow(a, "a2")
  \/ \E id \in ListTargets : FollowersGet(RelSlot, id)
  \/ \E id \in ListTargets : FollowingGet(RelSlot, id)
  \/ \E o \in ListOwners \cup {NULL}, ids \in ListIdLists :
       FamiliarStart(RelSlot, o, ids)
  \/ FamiliarLoop(RelSlot)
  \/ \E t \in ListClockPoints : Tick(t)
  \/ Finish(RelSlot)

ListSpec == ListInit /\ [][ListNext]_vars

---------------------------------------------------------------------------
(* RaceSpec: a statuses request of a1 handled while a follow, unfollow or  *)
(* block request of a1 is handled, the steps of the two interleaved.       *)

RaceViewSlot == "req1"

RaceEditSlot == "req2"

RaceTargets == {"a2", "r1"}

RaceQuery == StatusesQueryArg(FALSE, FALSE, FALSE, DefaultLimit, None, None)

RaceInit ==
  /\ accounts = LocalAccounts \cup {RemoteRow("r1")}
  /\ follows = {}
  /\ blocks = {}
  /\ mutes = {}
  /\ posts = KnownPosts
  /\ clock = 0
  /\ lastIndex = 0
  /\ owners = LocalOwners
  /\ reqs = [s \in {RaceViewSlot, RaceEditSlot} |-> Idle]
  /\ walk = NoWalk

RaceNext ==
  \/ \E id \in RaceTargets : StatusesStart(RaceViewSlot, "a1", id, RaceQuery)
  \/ StatusesCount(RaceViewSlot)
  \/ StatusesBackfill(RaceViewSlot)
  \/ StatusesFollowing(RaceViewSlot)
  \/ StatusesQuery(RaceViewSlot)
  \/ \E id \in RaceTargets : FollowStart(RaceEditSlot, "a1", id)
  \/ FollowMutate(RaceEditSlot)
  \/ FollowReread(RaceEditSlot)
  \/ \E id \in RaceTargets : UnfollowStart(RaceEditSlot, "a1", id)
  \/ UnfollowMutate(RaceEditSlot)
  \/ UnfollowReread(RaceEditSlot)
  \/ \E id \in RaceTargets : BlockStart(RaceEditSlot, "a1", id)
  \/ BlockMutate(RaceEditSlot)
  \/ BlockReread(RaceEditSlot)
  \/ AcceptFollow("a1", "a2")
  \/ \E s \in {RaceViewSlot, RaceEditSlot} : Finish(s)

RaceSpec == RaceInit /\ [][RaceNext]_vars

---------------------------------------------------------------------------
(* FrameSpec: both local accounts mute and unmute, one request at a time,  *)
(* among follows and a block made by requests of their own.                *)

FrameOwners == {"a1", "a2"}

FrameTargets == {"a1", "a2", "r1"}

FrameInit ==
  /\ accounts = LocalAccounts \cup {RemoteRow("r1")}
  /\ follows = {}
  /\ blocks = {}
  /\ mutes = {}
  /\ posts = {}
  /\ clock = 0
  /\ lastIndex = 0
  /\ owners = LocalOwners
  /\ reqs = [s \in {RelSlot} |-> Idle]
  /\ walk = NoWalk

FrameNext ==
  \/ \E o \in FrameOwners, id \in FrameTargets, arg \in RelMuteArgs :
       MuteStart(RelSlot, o, id, arg)
  \/ MuteMutate(RelSlot)
  \/ MuteReread(RelSlot)
  \/ \E o \in FrameOwners, id \in FrameTargets : UnmuteStart(RelSlot, o, id)
  \/ UnmuteReread(RelSlot)
  \/ \E o \in FrameOwners, id \in FrameTargets : FollowStart(RelSlot, o, id)
  \/ FollowMutate(RelSlot)
  \/ FollowReread(RelSlot)
  \/ BlockStart(RelSlot, "a1", "r1")
  \/ BlockMutate(RelSlot)
  \/ BlockReread(RelSlot)
  \/ Finish(RelSlot)

FrameSpec == FrameInit /\ [][FrameNext]_vars

---------------------------------------------------------------------------
(* Properties *)

\* request s sends its response in this step
Responds(s, op) ==
  /\ reqs'[s] # reqs[s]
  /\ reqs'[s].op = op
  /\ reqs'[s].pc = "done"

PostById(id) == CHOOSE p \in posts : p.id = id

BlockRow(a, b) == [accountId |-> a, blockedAccountId |-> b]

\* a mute row of v on m that has not expired
MutedNow(v, m) ==
  \E x \in mutes :
    /\ x.accountId = v /\ x.mutedAccountId = m
    /\ (x.duration = None
        \/ clock < x.created + IntervalSeconds(Val(x.duration)))

\* C1: when a Block row exists between two distinct accounts, in either
\* direction, the statuses listing of the one requested by the other is
\* empty, for every visibility class and every combination of options.
C1_BlockedListingEmpty ==
  [][\A s \in DOMAIN reqs :
       (/\ Responds(s, "statuses")
        /\ reqs'[s].owner # reqs'[s].id
        /\ \/ BlockRow(reqs'[s].owner, reqs'[s].id) \in blocks
           \/ BlockRow(reqs'[s].id, reqs'[s].owner) \in blocks)
       => reqs'[s].resp = PostsResp(<<>>, None)]_vars

\* the viewer blocks a target that has public posts and has not blocked the
\* viewer: the listing went through the post query and came back empty
C1_Witness ==
  \E s \in DOMAIN reqs :
    /\ At(s, "statuses", "done")
    /\ reqs[s].resp = PostsResp(<<>>, None)
    /\ BlockRow(reqs[s].owner, reqs[s].id) \in blocks
    /\ BlockRow(reqs[s].id, reqs[s].owner) \notin blocks
    /\ \E p \in posts : p.accountId = reqs[s].id /\ p.visibility = "public"
    /\ ~reqs[s].arg.pinned /\ ~reqs[s].arg.only_media

\* C2: a private post is listed only to its author and to viewers whose
\* Follow of the author is approved; a pending Follow shows none.
C2_PrivateNeedsApprovedFollow ==
  [][\A s \in DOMAIN reqs :
       (Responds(s, "statuses") /\ reqs'[s].resp.kind = "posts")
       => \A i \in 1..Len(reqs'[s].resp.body) :
            LET p == PostById(reqs'[s].resp.body[i])
            IN p.visibility = "private"
               => \/ p.accountId = reqs'[s].owner
                  \/ \E f \in follows :
                       /\ f.followerId = reqs'[s].owner
                       /\ f.followingId = p.accountId
                       /\ f.approved # None]_vars

\* C3: following the max_id cursors from the first page returns every
\* eligible post exactly once, each page before the last being full.
C3_WalkEnumeratesEligible ==
  /\ ~walk.done => Len(walk.seen) = walk.pages * walk.limit
  /\ walk.done =>
       /\ \A p \in posts :
            Cardinality({i \in 1..Len(walk.seen) : walk.seen[i] = p.id}) = 1
       /\ \A i \in 1..Len(walk.seen) : \E p \in posts : p.id = walk.seen[i]

\* C4: a mute requested with D > 0 seconds and stored at `created` is
\* active at every time before created + D and inactive after it; a mute
\* stored with a null duration is active at every time.
C4_MuteLastsRequestedDuration ==
  [][\A s \in DOMAIN reqs :
       (At(s, "mute", "mutate") /\ reqs'[s].pc = "reread")
       => \A m \in mutes' :
            (m.accountId = reqs[s].owner /\ m.mutedAccountId = reqs[s].id)
            => \A t \in ClockPoints :
                 IF reqs[s].arg.duration > 0
                 THEN /\ t < m.created + reqs[s].arg.duration => ActiveMute(m, t)
                      /\ t > m.created + reqs[s].arg.duration => ~ActiveMute(m, t)
                 ELSE m.duration = None => ActiveMute(m, t)]_vars

\* the options of a statuses query hold of post p of account id
OptionsAllow(p, id, q) ==
  /\ (q.pinned => id \in p.pinnedBy)
  /\ (q.exclude_replies => p.replyTargetId = None)
  /\ (q.only_media => p.media)

\* the rules other than the mute rules let viewer v see post p
OtherRulesAllow(p, v) ==
  /\ \/ p.visibility \in {"public", "unlisted"}
     \/ p.accountId = v
     \/ /\ p.visibility = "private"
        /\ \E f \in follows : /\ f.followerId = v
                              /\ f.followingId = p.accountId
                              /\ f.approved # None
     \/ (p.visibility = "direct" /\ v \in p.mentions)
  /\ BlockRow(v, p.accountId) \notin blocks
  /\ BlockRow(p.accountId, v) \notin blocks

\* C5: while the viewer has an active mute on M, the listing returns no
\* post of M and no repost of a post of M; with no active mute on the
\* author or on the reposted post's author (as after unmute), every post
\* of the target that the other rules allow is returned.
C5_MuteHidesPostsAndReposts ==
  [][\A s \in DOMAIN reqs :
       (Responds(s, "statuses") /\ reqs'[s].resp.kind = "posts")
       => LET v == reqs'[s].owner
              listed == Range(reqs'[s].resp.body)
          IN /\ \A id \in listed :
                  /\ ~MutedNow(v, PostById(id).accountId)
                  /\ PostById(id).sharingId # None =>
                       ~MutedNow(v, PostById(Val(PostById(id).sharingId)).accountId)
             /\ \A p \in posts :
                  (/\ p.accountId = reqs'[s].id
                   /\ ~MutedNow(v, p.accountId)
                   /\ p.sharingId # None =>
                        ~MutedNow(v, PostById(Val(p.sharingId)).accountId)
                   /\ OtherRulesAllow(p, v)
                   /\ OptionsAllow(p, reqs'[s].id, reqs'[s].arg))
                  => p.id \in listed]_vars

\* a1 mutes r1 and not a2, and lists a2: the posts of a2 come back without
\* a2's repost of r1's post
C5_Witness ==
  \E s \in DOMAIN reqs :
    /\ At(s, "statuses", "done")
    /\ reqs[s].resp.kind = "posts"
    /\ reqs[s].owner = "a1" /\ reqs[s].id = "a2"
    /\ MutedNow("a1", "r1") /\ ~MutedNow("a1", "a2")
    /\ 11 \in Range(reqs[s].resp.body)
    /\ 16 \notin Range(reqs[s].resp.body)

\* the handle an acct or q parameter names: the leading "@" is optional,
\* a name without a host is a name on this host
DenotedHandle(str) ==
  IF IncludesAt(StripLeadingAt(str))
  THEN <<"@">> \o StripLeadingAt(str)
  ELSE <<"@">> \o StripLeadingAt(str) \o <<"@">> \o LocalHost

\* C6: a lookup that finds no row for the handle dereferences once and
\* leaves one row for it; a lookup of a handle that has a row answers from
\* the row, with no dereference.
C6_LookupDereferencesOnce ==
  [][\A s \in DOMAIN reqs :
       /\ (/\ reqs[s] = Idle
           /\ reqs'[s].op = "lookup"
           /\ \E a \in accounts : a.handle = DenotedHandle(reqs'[s].arg.acct))
          => (reqs'[s].pc = "done" /\ reqs'[s].resp.status = 200)
       /\ (Responds(s, "lookup") /\ reqs'[s].resp.status = 200)
          => /\ reqs'[s].loc.derefs <= 1
             /\ Cardinality({a \in accounts' :
                  a.handle = DenotedHandle(reqs'[s].arg.acct)}) = 1]_vars

\* the handle a lookup or search request asks for
Requested(r) == IF r.op = "lookup" THEN r.arg.acct ELSE r.arg.q

\* C7: lookup and search dereference remotely only when no local row
\* matches the requested handle.
C7_NoDereferenceWhenLocal ==
  [][\A s \in DOMAIN reqs :
       (/\ reqs[s].op \in {"lookup", "search"}
        /\ reqs[s].pc = "deref"
        /\ reqs'[s] # reqs[s])
       => ~\E a \in accounts : a.handle = DenotedHandle(Requested(reqs[s]))]_vars

FollowRow(a, b) ==
  {f \in follows : f.followerId = a /\ f.followingId = b}

\* C8: the block removes the viewer's Follow of the blocked account and
\* writes the Block row; no step of an unblock request changes the follows.
C8_BlockDestroysFollow ==
  [][\A s \in DOMAIN reqs :
       /\ (/\ At(s, "block", "mutate")
           /\ reqs'[s] # reqs[s]
           /\ reqs[s].owner # reqs[s].id)
          => /\ \A f \in follows' :
                  ~(f.followerId = reqs[s].owner /\ f.followingId = reqs[s].id)
             /\ BlockRow(reqs[s].owner, reqs[s].id) \in blocks'
       /\ (reqs'[s] # reqs[s] /\ reqs'[s].op = "unblock")
          => follows' = follows]_vars

\* a block request is about to block an account its owner follows
C8_Witness ==
  \E s \in DOMAIN reqs :
    /\ At(s, "block", "mutate")
    /\ FollowRow(reqs[s].owner, reqs[s].id) # {}

\* C9: a follow of oneself, or with a Block in either direction, ends with
\* the 403 result, changes no Follow row and returns no summary.
C9_RefusedFollowIs403 ==
  [][\A s \in DOMAIN reqs :
       (/\ At(s, "follow", "mutate")
        /\ reqs'[s] # reqs[s]
        /\ \/ reqs[s].owner = reqs[s].id
           \/ BlockRow(reqs[s].owner, reqs[s].id) \in blocks
           \/ BlockRow(reqs[s].id, reqs[s].owner) \in blocks)
       => /\ reqs'[s].pc = "done"
          /\ reqs'[s].resp = ErrorResp(403)
          /\ follows' = follows]_vars

\* a follow of an account that has blocked the follower has ended with 403
C9_Witness ==
  \E s \in DOMAIN reqs :
    /\ At(s, "follow", "done")
    /\ reqs[s].resp = ErrorResp(403)
    /\ BlockRow(reqs[s].id, reqs[s].owner) \in blocks

\* C10: an unblock that passed its checks returns the relationship
\* summary, also when the dispatch of Undo(Block) fails: its only failures
\* are 404 and 422.
C10_DeliveryFailureNotSurfaced ==
  \A s \in DOMAIN reqs :
    (At(s, "unblock", "done") /\ reqs[s].resp.kind # "relationship")
    => reqs[s].resp.status \in {404, 422}

\* C11: a step in which the dispatch of Undo(Block) fails leaves the blocks
\* table as the delete left it, without Block(A,B); and a Block row is only
\* ever added by the blockAccount step of a block request for that pair.
C11_FailedDispatchKeepsDelete ==
  [][/\ \A s \in DOMAIN reqs :
          (At(s, "unblock", "dispatch") /\ reqs'[s].resp = UnhandledFault)
          => /\ blocks' = blocks
             /\ BlockRow(reqs[s].owner, reqs[s].id) \notin blocks'
     /\ \A b \in blocks' \ blocks :
          \E s \in DOMAIN reqs :
            /\ At(s, "block", "mutate")
            /\ reqs[s].owner = b.accountId
            /\ reqs[s].id = b.blockedAccountId]_vars

\* an unblock of a remote account has failed in its dispatch, after the
\* delete: the request ended with the fault and the Block row is gone
C11_Witness ==
  \E s \in DOMAIN reqs :
    /\ At(s, "unblock", "done")
    /\ reqs[s].resp = UnhandledFault
    /\ ~reqs[s].loc.account.owner
    /\ reqs[s].loc.deleted = 1
    /\ BlockRow(reqs[s].owner, reqs[s].id) \notin blocks

\* the activities request s hands over in this step
SentInStep(s) ==
  IF reqs[s] = Idle \/ reqs'[s] = Idle THEN {}
  ELSE reqs'[s].loc.sent \ reqs[s].loc.sent

\* the names of the entries of an object
Names(obj) == {obj[i].name : i \in 1..Len(obj)}

\* the slots of a form that the fields loop does not skip
GivenSlots(form) ==
  {i \in 1..4 : /\ ~IsNull(form.attrs[i])
                /\ ~IsBlank(Val(form.attrs[i]).name)
                /\ ~IsBlank(Val(form.attrs[i]).value)}

\* the stored rows of the owner hold what the form asks for
FormWritten(id, form) ==
  LET a == CHOOSE x \in accounts : x.id = id
      o == CHOOSE x \in owners : x.id = id
  IN /\ ~IsNull(form.display_name) => a.name = Val(form.display_name)
     /\ ~IsNull(form.locked) => a.protected = Val(form.locked)
     /\ ~IsNull(form.note) =>
          (a.bioHtml = Html(Val(form.note)) /\ o.bio = Val(form.note))
     /\ \A i \in GivenSlots(form) :
          /\ Val(form.attrs[i]).name \in Names(a.fieldHtmls)
          /\ Val(form.attrs[i]) \in Range(o.fields)

\* C12: in the step that hands an activity over, the mutation it reports
\* is already in the store and the step itself writes nothing: Undo(Block)
\* finds the Block row deleted; Update finds the accounts row and the
\* account_owners row holding the form's values, and carries them.
C12_CommitBeforeDispatch ==
  [][\A s \in DOMAIN reqs : \A act \in SentInStep(s) :
       /\ act.type = "UndoBlock" =>
            /\ BlockRow(reqs[s].owner, reqs[s].id) \notin blocks
            /\ blocks' = blocks
       /\ act.type = "Update" =>
            /\ FormWritten(reqs[s].owner, reqs[s].arg)
            /\ act.object.name = (CHOOSE x \in accounts : x.id = reqs[s].owner).name
            /\ accounts' = accounts /\ owners' = owners]_vars

\* an update of the name, the bio and a profile field has been answered,
\* its Update activity handed over
C12_Witness ==
  \E s \in DOMAIN reqs :
    /\ At(s, "update_credentials", "done")
    /\ reqs[s].resp.kind = "credentials"
    /\ \E act \in reqs[s].loc.sent : act.type = "Update"
    /\ ~IsNull(reqs[s].arg.display_name)
    /\ ~IsNull(reqs[s].arg.note)
    /\ GivenSlots(reqs[s].arg) # {}

\* C13: an Undo(Block) is handed over only by an unblock of a remote
\* account whose delete removed a Block row, the row that existed when the
\* request was made.
C13_UndoOnlyForExistingRemoteBlock ==
  [][\A s \in DOMAIN reqs : \A act \in SentInStep(s) :
       act.type = "UndoBlock" =>
         /\ reqs[s].op = "unblock"
         /\ ~reqs[s].loc.account.owner
         /\ reqs[s].loc.deleted > 0]_vars

\* C14: a mute or unmute request has handed no activity over, at any point
\* of its handling, whether the muted account is local or remote.
C14_MuteSendsNothing ==
  \A s \in DOMAIN reqs :
    reqs[s].op \in {"mute", "unmute"} => reqs[s].loc.sent = {}

\* a mute of the remote account has been answered with the summary
C14_Witness ==
  \E s \in DOMAIN reqs :
    /\ At(s, "mute", "done")
    /\ reqs[s].resp.kind = "relationship"
    /\ reqs[s].resp.body.muting
    /\ ~FindAccount(reqs[s].id).owner

\* the Mute rows of the ordered pair (a, b)
MuteRows(a, b) == {m \in mutes : m.accountId = a /\ m.mutedAccountId = b}

\* request r has issued its write to the mutes table
Wrote(r) ==
  /\ r.op \in {"mute", "unmute"}
  /\ \/ r.pc = "reread"
     \/ (r.pc = "done" /\ r.resp.kind = "relationship")

\* the rows of r's pair are what r's write leaves when it is the last one
LastWriter(r) ==
  IF r.op = "unmute" THEN MuteRows(r.owner, r.id) = {}
  ELSE \E m \in mutes :
         /\ MuteRows(r.owner, r.id) = {m}
         /\ m.notifications = r.arg.notifications
         /\ m.duration = DurationStr(r.arg.duration)
         /\ m.created <= clock

\* C15: under every interleaving of mute and unmute requests a pair has at
\* most one Mute row; when all requests in flight have written to one pair
\* its rows are those left by one of them written last, that is by a
\* serial order; and the write of a mute leaves exactly one row for the
\* pair, with the request's flag and duration and created at the write.
C15_MuteSerializable ==
  /\ [](\A m, n \in mutes :
          (m.accountId = n.accountId /\ m.mutedAccountId = n.mutedAccountId)
          => m = n)
  /\ []((\A s, t \in DOMAIN reqs :
            /\ Wrote(reqs[s])
            /\ reqs[s].owner = reqs[t].owner /\ reqs[s].id = reqs[t].id)
         => \E s \in DOMAIN reqs : LastWriter(reqs[s]))
  /\ [][\A s \in DOMAIN reqs :
          (At(s, "mute", "mutate") /\ reqs'[s] # reqs[s])
          => \E m \in mutes' :
               /\ {x \in mutes' : /\ x.accountId = reqs[s].owner
                                  /\ x.mutedAccountId = reqs[s].id} = {m}
               /\ m.notifications = reqs[s].arg.notifications
               /\ m.duration = DurationStr(reqs[s].arg.duration)
               /\ m.created = clock]_vars

\* two mute requests for one pair with different flags are in flight, both
\* have written, and the row is the one the later write left
C15_Witness ==
  /\ \A s \in DOMAIN reqs : Wrote(reqs[s]) /\ reqs[s].op = "mute"
  /\ \E s, t \in DOMAIN reqs :
       /\ reqs[s].id = reqs[t].id
       /\ reqs[s].arg # reqs[t].arg
       /\ \E m \in MuteRows(reqs[s].owner, reqs[s].id) : m.created > 0

\* C16: no Mute row has an account muting itself.
C16_NoSelfMute ==
  \A m \in mutes : m.accountId # m.mutedAccountId

\* the ids of a list that are well-formed and name an account
Existing(ids) ==
  {x \in Range(ids) : IsUuid(x) /\ \E a \in accounts : a.id = x}

\* the place of the first occurrence of x in ids
FirstAt(ids, x) == CHOOSE i \in 1..Len(ids) :
  ids[i] = x /\ \A j \in 1..(i - 1) : ids[j] # x

\* C17, as stated: the answer to a relationships request has one summary
\* per supplied id, the i-th being the summary of the i-th id, for every
\* list of ids.
C17_OnePerSuppliedId ==
  [][\A s \in DOMAIN reqs :
       (Responds(s, "relationships") /\ reqs'[s].resp.kind = "relationships")
       => LET ids == reqs'[s].arg.ids
              body == reqs'[s].resp.body
          IN /\ Len(body) = Len(ids)
             /\ \A i \in 1..Len(ids) : body[i].id = ids[i]]_vars

\* C17, amended: the answer has one summary per distinct supplied id that
\* is well-formed and names an account, in the order of the ids' first
\* occurrences in the list; so for a list of distinct ids of existing
\* accounts the i-th summary is the summary of the i-th id.
C17_OnePerExistingAccount ==
  [][\A s \in DOMAIN reqs :
       (Responds(s, "relationships") /\ reqs'[s].resp.kind = "relationships")
       => LET ids == reqs'[s].arg.ids
              body == reqs'[s].resp.body
          IN /\ {body[i].id : i \in 1..Len(body)} = Existing(ids)
             /\ Len(body) = Cardinality(Existing(ids))
             /\ \A i, j \in 1..Len(body) :
                  i < j => FirstAt(ids, body[i].id) < FirstAt(ids, body[j].id)
             /\ \A i \in 1..Len(body) :
                  body[i] = Relationship(reqs'[s].owner, body[i].id)
             /\ (Len(ids) = Cardinality(Existing(ids))
                 => \A i \in 1..Len(ids) : body[i].id = ids[i])]_vars

\* the relationships of r1 and a2, in this order, have been asked for and
\* answered with two summaries, a1 following one of the two
C17_Witness ==
  \E s \in DOMAIN reqs :
    /\ At(s, "relationships", "done")
    /\ reqs[s].arg.ids = <<"r1", "a2">>
    /\ reqs[s].resp.kind = "relationships"
    /\ Len(reqs[s].resp.body) = 2
    /\ \E i \in 1..2 : reqs[s].resp.body[i].following

\* C18: every post of a statuses response passes every filter the request
\* asks for: pinned, exclude_replies, only_media and tagged.
C18_RequestedFiltersApplied ==
  [][\A s \in DOMAIN reqs :
       (Responds(s, "statuses") /\ reqs'[s].resp.kind = "posts")
       => \A i \in 1..Len(reqs'[s].resp.body) :
            LET p == PostById(reqs'[s].resp.body[i])
                q == reqs'[s].arg
            IN /\ q.pinned => reqs'[s].id \in p.pinnedBy
               /\ q.exclude_replies => IsNull(p.replyTargetId)
               /\ q.only_media => p.media
               /\ q.tagged # NULL => q.tagged \in p.tags]_vars

\* the rows that match a paging request: the target's posts within the
\* request's cursor (every post of the paging runs is public)
Matching(r) ==
  {p \in posts : /\ p.accountId = r.id
                 /\ (IsNull(r.arg.max_id) \/ p.id < Val(r.arg.max_id))}

\* p comes before r newest-first: later published, on a tie the larger id
Before(p, r) ==
  p.published > r.published \/ (p.published = r.published /\ p.id > r.id)

\* C19: a page requested with limit L holds the first L matching rows in
\* newest-first order, all of them when fewer match; a cursor is returned
\* exactly when more than L rows match, and it is the id of the (L+1)-th.
C19_PageContract ==
  [][\A s \in DOMAIN reqs :
       (Responds(s, "statuses") /\ reqs'[s].resp.kind = "posts")
       => LET r == reqs'[s]
              L == r.arg.limit
              body == r.resp.body
              shown == {p \in Matching(r) : p.id \in Range(body)}
              rest == Matching(r) \ shown
          IN /\ Len(body) <= L
             /\ Cardinality(shown) = Len(body)
             /\ Len(body) = IF Cardinality(Matching(r)) < L
                            THEN Cardinality(Matching(r)) ELSE L
             /\ \A i, j \in 1..Len(body) :
                  i < j => Before(PostById(body[i]), PostById(body[j]))
             /\ \A p \in shown, x \in rest : Before(p, x)
             /\ IsNull(r.resp.next) <=> Cardinality(Matching(r)) <= L
             /\ ~IsNull(r.resp.next) =>
                  \E x \in rest : /\ x.id = Val(r.resp.next)
                                   /\ \A y \in rest \ {x} : Before(x, y)]_vars

\* a full page of two posts has been returned with a cursor, three or more
\* posts matching
C19_Witness ==
  \E s \in DOMAIN reqs :
    /\ At(s, "statuses", "done")
    /\ reqs[s].resp.kind = "posts"
    /\ reqs[s].arg.limit = 2
    /\ Len(reqs[s].resp.body) = 2
    /\ ~IsNull(reqs[s].resp.next)
    /\ Cardinality(Matching(reqs[s])) >= 3

Mutations == {"follow", "unfollow", "mute", "unmute", "block", "unblock"}

\* request s is a relationship mutation that arrives in this step with no
\* account owner behind its token
ArrivesUnowned(s) ==
  /\ reqs[s] = Idle
  /\ reqs'[s].op \in Mutations
  /\ reqs'[s].owner = NULL

\* the step answers request s with this failure, writes no Follow, Block
\* or Mute row and hands no activity over
RefusedWith(s, status) ==
  /\ reqs'[s].pc = "done"
  /\ reqs'[s].resp = ErrorResp(status)
  /\ reqs'[s].loc.sent = {}
  /\ follows' = follows /\ blocks' = blocks /\ mutes' = mutes

\* C20, as stated: every relationship mutation invoked without an account
\* owner is answered 422, with no row changed and no activity.
C20_Unowned422 ==
  [][\A s \in DOMAIN reqs : ArrivesUnowned(s) => RefusedWith(s, 422)]_vars

\* C20, amended: a relationship mutation invoked without an account owner
\* is answered 422 when its id is well-formed and 404 when the id is
\* malformed, the id being checked first; either way no row changes and no
\* activity is handed over.
C20_Unowned422Or404 ==
  [][\A s \in DOMAIN reqs :
       ArrivesUnowned(s) =>
         IF IsUuid(reqs'[s].id) THEN RefusedWith(s, 422)
         ELSE RefusedWith(s, 404)]_vars

\* an unblock of an existing account without an account owner has been
\* answered 422
C20_Witness ==
  \E s \in DOMAIN reqs :
    /\ At(s, "unblock", "done")
    /\ reqs[s].owner = NULL
    /\ reqs[s].id = "r1"
    /\ reqs[s].resp = ErrorResp(422)

\* what the mutation of request r leaves in a summary read right after it
MutationShows(r, rel) ==
  CASE r.op = "follow" -> rel.following \/ rel.requested
    [] r.op = "unfollow" -> ~rel.following /\ ~rel.requested
    [] r.op = "mute" ->
         rel.muting /\ rel.mutingNotifications = r.arg.notifications
    [] r.op = "unmute" -> ~rel.muting /\ ~rel.mutingNotifications
    [] r.op = "block" ->
         r.owner # r.id =>
           rel.blocking /\ ~rel.following /\ ~rel.requested /\ ~rel.followedBy
    [] r.op = "unblock" -> ~rel.blocking

\* C21: the relationship summary a mutation answers with is read from the
\* Follow, Block and Mute rows as they are after the request's own write:
\* it equals the summary of the rows at the time of the response, and,
\* the request being the only one, it shows the effect of the mutation.
C21_SummaryReadAfterMutation ==
  [][\A s \in DOMAIN reqs :
       (/\ reqs[s] # Idle
        /\ reqs[s].op \in Mutations
        /\ Responds(s, reqs[s].op)
        /\ reqs'[s].resp.kind = "relationship") =>
         /\ reqs[s].pc = "reread"
         /\ reqs'[s].resp.body = Relationship(reqs[s].owner, reqs[s].id)
         /\ MutationShows(reqs[s], reqs'[s].resp.body)]_vars

\* an unblock whose delete removed the Block row has been answered with a
\* summary that shows no block
C21_Witness ==
  \E s \in DOMAIN reqs :
    /\ At(s, "unblock", "done")
    /\ reqs[s].loc.deleted = 1
    /\ reqs[s].resp.kind = "relationship"
    /\ ~reqs[s].resp.body.blocking

\* the number of posts of account id known locally
KnownCount(id) == Cardinality({p \in posts : p.accountId = id})

\* request s is a statuses request that moves on from position pc
StatusesLeaves(s, pc) ==
  /\ reqs[s] # Idle
  /\ At(s, "statuses", pc)
  /\ reqs'[s] # reqs[s]

\* C22: a statuses request whose target has blocked the viewer is answered
\* with the empty list at once, with no backfill and no post query;
\* otherwise the backfill starts exactly when the target has no owner and
\* fewer posts known than the threshold, it is over before the follow
\* lookup and the post query, and the posts are queried only after it.
C22_StatusesStepOrder ==
  [][\A s \in DOMAIN reqs :
       /\ (/\ reqs[s] = Idle
           /\ reqs'[s].op = "statuses"
           /\ Precheck(reqs'[s].owner, reqs'[s].id) = 0
           /\ BlockedByTarget(reqs'[s].owner, reqs'[s].id)) =>
            /\ reqs'[s].pc = "done"
            /\ reqs'[s].resp = PostsResp(<<>>, None)
            /\ posts' = posts
       /\ StatusesLeaves(s, "count") =>
            /\ reqs'[s].pc \in {"backfill", "following"}
            /\ reqs'[s].pc = "backfill" <=>
                 /\ ~reqs[s].loc.account.owner
                 /\ KnownCount(reqs[s].id) < REMOTE_ACTOR_FETCH_POSTS
            /\ posts' = posts
       /\ StatusesLeaves(s, "backfill") => reqs'[s].pc = "following"
       /\ StatusesLeaves(s, "following") =>
            reqs'[s].pc = "query" /\ posts' = posts
       /\ StatusesLeaves(s, "query") =>
            reqs'[s].pc = "done" /\ posts' = posts
       /\ (reqs'[s] # reqs[s] /\ reqs'[s] # Idle /\ reqs'[s].pc = "backfill") =>
            reqs[s] # Idle /\ At(s, "statuses", "count")]_vars

\* a listing of the remote account has been answered after a backfill that
\* stored a post, and holds that post
C22_Witness ==
  \E s \in DOMAIN reqs :
    /\ At(s, "statuses", "done")
    /\ reqs[s].id = "r1"
    /\ reqs[s].resp.kind = "posts"
    /\ \E p \in RemotePosts :
         p \in posts /\ (\E i \in DOMAIN reqs[s].resp.body :
                          reqs[s].resp.body[i] = p.id)

\* an approved Follow row says that a follows b
Follows(a, b) ==
  \E f \in follows :
    f.followerId = a /\ f.followingId = b /\ ~IsNull(f.approved)

\* C23: every account of a followers list, of a following list and of a
\* familiar-followers entry is there on the basis of approved Follow rows:
\* a follower of :id follows it, an account :id follows is followed by it,
\* and a familiar follower of id follows id and is followed by the owner.
C23_ListsUseApprovedFollows ==
  [][\A s \in DOMAIN reqs :
       /\ (Responds(s, "followers") /\ reqs'[s].resp.kind = "accounts") =>
            \A a \in Range(reqs'[s].resp.body) : Follows(a, reqs'[s].id)
       /\ (Responds(s, "following") /\ reqs'[s].resp.kind = "accounts") =>
            \A a \in Range(reqs'[s].resp.body) : Follows(reqs'[s].id, a)
       /\ (reqs[s] # Idle /\ At(s, "familiar_followers", "loop")
           /\ reqs'[s] # reqs[s]) =>
            LET entry == reqs'[s].loc.result[Len(reqs'[s].loc.result)]
            IN \A a \in entry.accounts :
                 Follows(a, entry.id) /\ Follows(reqs[s].owner, a)]_vars

\* request r is a relationship mutation whose :id is malformed or is the
\* id of no account
TargetMissing(r) ==
  /\ r.op \in Mutations
  /\ (~IsUuid(r.id) \/ FindAccount(r.id).id = NULL)

\* request s takes a step that writes no Follow, Block or Mute row, hands
\* no activity over and, when it answers, answers with this failure
QuietStep(s, status) ==
  /\ follows' = follows /\ blocks' = blocks /\ mutes' = mutes
  /\ reqs'[s].loc.sent = {}
  /\ reqs'[s].pc = "done" => reqs'[s].resp = ErrorResp(status)

\* C24, as stated: a relationship mutation whose target id is malformed
\* or names no account is answered 404, changes no Follow, Block or Mute
\* row and hands no activity over.
C24_MissingTarget404 ==
  [][\A s \in DOMAIN reqs :
       (reqs'[s] # reqs[s] /\ reqs'[s] # Idle /\ TargetMissing(reqs'[s])) =>
         QuietStep(s, 404)]_vars

\* C24, amended: the same for a request made with an account owner; made
\* without one, the request is answered 404 when the id is malformed and
\* 422 when it is well-formed, whether or not it names an account.
C24_MissingTarget404Owned ==
  [][\A s \in DOMAIN reqs :
       (reqs'[s] # reqs[s] /\ reqs'[s] # Idle /\ TargetMissing(reqs'[s])) =>
         IF reqs'[s].owner = NULL /\ IsUuid(reqs'[s].id)
         THEN QuietStep(s, 422)
         ELSE QuietStep(s, 404)]_vars

\* an unmute of an id of no account, made with an account owner, has been
\* answered 404 after its delete and its re-read
C24_Witness ==
  \E s \in DOMAIN reqs :
    /\ At(s, "unmute", "done")
    /\ reqs[s].owner = "a1"
    /\ reqs[s].id = "nx"
    /\ reqs[s].resp = ErrorResp(404)

\* the resolve decision of a search with these parameters over the stored
\* accounts, in a process that has handled no search before
FreshDecision(arg) ==
  /\ arg.resolve /\ HandleShape(arg.q) /\ arg.offset < 1
  /\ \E a \in accounts : a.handle = ExactHandle(arg.q)

\* C25: whether a search attempts the remote resolution is decided by its
\* own parameters and the stored accounts alone: every search makes the
\* decision that a process which has handled no search before would make.
C25_ResolveDecisionStateless ==
  [][\A s \in DOMAIN reqs :
       (reqs[s] = Idle /\ reqs'[s] # Idle /\ reqs'[s].op = "search") =>
         (reqs'[s].pc = "deref" <=> FreshDecision(reqs'[s].arg))]_vars

\* C26: a statuses response holds a private post of the target, the target
\* not being the viewer, only if a Follow row from the viewer to the
\* target is stored when the post query is evaluated, whatever was stored
\* when the handler looked the follow up.
C26_PrivateNeedsFollowAtQuery ==
  [][\A s \in DOMAIN reqs :
       (/\ reqs[s] # Idle
        /\ At(s, "statuses", "query")
        /\ Responds(s, "statuses")
        /\ reqs[s].owner # reqs[s].id) =>
         \A id \in Range(reqs'[s].resp.body) :
           PostById(id).visibility = "private" =>
             \E f \in follows :
               f.followerId = reqs[s].owner /\ f.followingId = reqs[s].id]_vars

\* C27: the successor reported with an account is the account whose id is
\* the reported account's successorId, and none when that is unset, in a
\* lookup answered from the stored row, in a lookup answered after a
\* remote resolution and in update_credentials alike.
C27_SuccessorIsSuccessorId ==
  [][\A s \in DOMAIN reqs :
       /\ (Responds(s, "lookup") /\ reqs'[s].resp.kind = "account") =>
            reqs'[s].resp.successor =
              FindAccount(FindAccount(reqs'[s].resp.body).successorId).id
       /\ (Responds(s, "update_credentials")
           /\ reqs'[s].resp.kind = "credentials") =>
            reqs'[s].resp.successor =
              FindAccount(FindAccount(reqs'[s].owner).successorId).id]_vars

\* the Mute row of a on b is stored with a null duration
MutedIndefinitely(a, b) ==
  \E m \in mutes :
    m.accountId = a /\ m.mutedAccountId = b /\ m.duration = None

\* C28: a mute with a duration of zero (the value of an omitted duration)
\* or below is stored with a null duration, the row is active at every
\* instant, and as long as the row is stored, that is until an unmute or a
\* mute with a positive duration, a listing of the muted account's
\* statuses by the muting account is empty whatever the time.
C28_NonPositiveDurationIsIndefinite ==
  [][\A s \in DOMAIN reqs :
       /\ (/\ reqs[s] # Idle
           /\ At(s, "mute", "mutate")
           /\ reqs'[s].pc = "reread"
           /\ reqs[s].arg.duration <= 0) =>
            /\ MuteRows(reqs[s].owner, reqs[s].id)' =
                 {MuteRow(reqs[s].owner, reqs[s].id, reqs[s].arg, clock)}
            /\ \A m \in MuteRows(reqs[s].owner, reqs[s].id)' :
                 m.duration = None /\ \A t \in ClockPoints : ActiveMute(m, t)
       /\ (/\ reqs[s] # Idle
           /\ At(s, "statuses", "query")
           /\ Responds(s, "statuses")
           /\ MutedIndefinitely(reqs[s].owner, reqs[s].id)) =>
            reqs'[s].resp.body = <<>>
       /\ \A a, b \in {x.id : x \in accounts} :
            (MutedIndefinitely(a, b) /\ ~MutedIndefinitely(a, b)') =>
              \/ /\ reqs[s] = Idle
                 /\ reqs'[s] # Idle
                 /\ reqs'[s].op = "unmute"
                 /\ reqs'[s].owner = a /\ reqs'[s].id = b
              \/ /\ reqs[s] # Idle
                 /\ At(s, "mute", "mutate")
                 /\ reqs[s].owner = a /\ reqs[s].id = b
                 /\ reqs[s].arg.duration > 0]_vars

\* a day and more after a mute of a2 with no positive duration, a listing
\* of a2's statuses by a1 has been answered, empty
C28_Witness ==
  \E s \in DOMAIN reqs :
    /\ At(s, "statuses", "done")
    /\ reqs[s].owner = "a1" /\ reqs[s].id = "a2"
    /\ reqs[s].resp.kind = "posts"
    /\ reqs[s].resp.body = <<>>
    /\ MutedIndefinitely("a1", "a2")
    /\ \E m \in mutes : m.accountId = "a1" /\ clock > m.created + 86400

\* C29: no step of a mute or unmute request of A for B changes a Follow
\* row, a Block row or a Mute row of another ordered pair, the row of
\* (B, A) included; the mutes table changes in the row of (A, B) at most.
C29_MuteFrame ==
  [][\A s \in DOMAIN reqs :
       (/\ reqs'[s] # reqs[s]
        /\ reqs'[s] # Idle
        /\ reqs'[s].op \in {"mute", "unmute"}) =>
         /\ follows' = follows
         /\ blocks' = blocks
         /\ \A m \in mutes \cup mutes' :
              (m.accountId # reqs'[s].owner \/ m.mutedAccountId # reqs'[s].id)
              => (m \in mutes <=> m \in mutes')]_vars

\* a1 has unmuted a2 while a2 mutes a1, a1 mutes r1, and a Follow row and
\* a Block row are stored; the other rows are still there
C29_Witness ==
  \E s \in DOMAIN reqs :
    /\ At(s, "unmute", "done")
    /\ reqs[s].owner = "a1" /\ reqs[s].id = "a2"
    /\ reqs[s].resp.kind = "relationship"
    /\ MuteRows("a2", "a1") # {}
    /\ MuteRows("a1", "r1") # {}
    /\ follows # {}
    /\ blocks # {}

\* C30: an update_credentials request does not fault on its profile
\* fields, whatever slots it supplies and whatever fields were stored, and
\* when it has answered with the credentials the rendered fields of the
\* accounts row and the source fields of the account_owners row have the
\* same names.
C30_FieldNamesAgree ==
  [][\A s \in DOMAIN reqs :
       /\ (/\ reqs[s] # Idle
           /\ At(s, "update_credentials", "owner")
           /\ reqs'[s] # reqs[s]) =>
            reqs'[s].resp # UnhandledFault
       /\ (/\ Responds(s, "update_credentials")
           /\ reqs'[s].resp.kind = "credentials") =>
            /\ accounts' = accounts /\ owners' = owners
            /\ Names(FindAccount(reqs[s].owner).fieldHtmls) =
                 Names(FindOwner(reqs[s].owner).fields)]_vars

=============================================================================
